---- MODULE Spec2Model ----
(***************************************************************************)
(* Model of naex::Planner (include/naex/planner.h): the plan service, the  *)
(* periodic planner, the viewpoint sampler and the cloud ingestion         *)
(* callback, over a small world of candidate map points.                   *)
(*                                                                         *)
(* Numbers.  Positions are integer 3-vectors in decimetres (0.1 m).        *)
(* A float Value (distance, time, cost) is an integer in hundredths        *)
(* (centimetres, centiseconds); a reward is an integer in millionths; a    *)
(* relative cost is an integer in tenths.  Non-finite floats are the two   *)
(* sentinels NaN and Inf; every comparison goes through FLess / FGreater,  *)
(* which are false on NaN as in IEEE 754.                                  *)
(*                                                                         *)
(* Vertices are 1-based indices into cloud (the code's are 0-based);       *)
(* INVALID_VERTEX is 0.                                                    *)
(***************************************************************************)
EXTENDS Integers, Sequences, FiniteSets, TLC

\* ------------------------------------------------------------------ bounds
\* Number of viewpoint timer ticks in a behaviour (the clock's last second).
MaxTicks == 1
\* The same for the behaviours that follow the viewpoint ledger.
LedgerTicks == 2
\* Clouds stop arriving once the map holds this many points, in the
\* behaviours that follow the cloud handlers (points with NaN coordinates
\* are never merged away, so the map grows with every cloud that has one).
MaxMapPoints == 9

\* ------------------------------------------------------- float sentinels
NaN == -1000000000
Inf == 1000000000
INVALID_VERTEX == 0

IsFinite(x) == x # NaN /\ x # Inf

\* a < b on floats: false when either side is NaN.
FLess(a, b) == a # NaN /\ b # NaN /\ a < b
FGreater(a, b) == FLess(b, a)
FGeq(a, b) == a # NaN /\ b # NaN /\ a >= b

FMin(a, b) == IF FLess(b, a) THEN b ELSE a
FMax(a, b) == IF FLess(a, b) THEN b ELSE a

\* A buffer indexed 1..n as a sequence value.
Array(f) == f \o <<>>

\* ------------------------------------------------------------- geometry
NaNVec == <<NaN, NaN, NaN>>
Origin == <<0, 0, 0>>

\* Planner::valid_point
valid_point(p) == IsFinite(p[1]) /\ IsFinite(p[2]) /\ IsFinite(p[3])

VSub(a, b) == <<a[1] - b[1], a[2] - b[2], a[3] - b[3]>>
VAdd(a, b) == <<a[1] + b[1], a[2] + b[2], a[3] + b[3]>>
VNeg(a) == <<0 - a[1], 0 - a[2], 0 - a[3]>>
Dot(a, b) == a[1] * b[1] + a[2] * b[2] + a[3] * b[3]
Cross(a, b) == <<a[2] * b[3] - a[3] * b[2],
                 a[3] * b[1] - a[1] * b[3],
                 a[1] * b[2] - a[2] * b[1]>>

\* Squared length, in square decimetres.
SqNorm(a) == Dot(a, a)

\* floor(sqrt(n)) by bisection of lo..hi, where lo * lo <= n < (hi + 1) * (hi + 1).
RECURSIVE ISqrtIn(_, _, _)
ISqrtIn(n, lo, hi) ==
    IF lo >= hi THEN lo
    ELSE LET mid == (lo + hi + 1) \div 2
         IN IF mid * mid <= n THEN ISqrtIn(n, mid, hi) ELSE ISqrtIn(n, lo, mid - 1)
ISqrt(n) == ISqrtIn(n, 0, 40000)

\* Square roots of the squared lengths up to 10 m, in centimetres, computed
\* once.
SqrtTable == [n \in 0..10000 |-> ISqrt(100 * n)]

\* Eigen's norm(): the length of a decimetre vector, in centimetres.
Norm(a) ==
    IF SqNorm(a) \in DOMAIN SqrtTable THEN SqrtTable[SqNorm(a)] ELSE ISqrt(100 * SqNorm(a))

\* norm() and the sum of float vectors: NaN as soon as a coordinate is not
\* finite.
FNorm(a) == IF valid_point(a) THEN Norm(a) ELSE NaN
FSub(a, b) == IF valid_point(a) /\ valid_point(b) THEN VSub(a, b) ELSE NaNVec
FAdd(a, b) == IF valid_point(a) /\ valid_point(b) THEN VAdd(a, b) ELSE NaNVec

\* ----------------------------------------------------- program constants
\* Planner constructor defaults, in hundredths (centimetres).
neighborhood_radius_ == 50
min_vp_distance_ == 150
max_vp_distance_ == 500
\* self_factor_ = 0.25, as a percentage.
self_factor_pct == 25
\* last_request_.tolerance = 2.0 set by the constructor.
default_tolerance == 200
\* Path cost floor of the exploration goal ("path_cost_ > 1."), in centimetres.
path_cost_floor == 100
\* "Index min_pts = 16" of input_cloud_received.
min_pts == 16
\* Sensor range gate of input_cloud_received (1 m, 25 m), in centimetres.
range_min == 100
range_max == 2500
\* Radius around a teammate within which input points are removed (1 m).
robot_radius == 100
\* max_cloud_age_ (constructor default 5.0), in seconds.
max_cloud_age_ == 5
\* random_start_ (constructor default false).
random_start_ == FALSE

\* Neighborhood::K_NEIGHBORS bounds the smallest map plan accepts.  Its
\* header is not part of the sources; the model takes a small value so that
\* maps of a handful of points can be planned in.
K_NEIGHBORS == 3
\* Map::points_min_dist_ and Map::neighborhood_radius_ (naex/map.h), in
\* centimetres.
points_min_dist_ == 20
map_neighborhood_radius_ == 50

\* ------------------------------------------------------------- the world
\* The environment the sensor looks at: the positions (map frame, dm) a
\* cloud can contain, and what the feature engine derives at each of them.
\* Chain A runs along x from 1.0 m to 2.6 m at 0.4 m spacing with
\* ObstaclePos beside it; cluster B lies 1.4 m further along x, out of edge
\* range of chain A.
ObstaclePos == <<14, 4, 0>>
ChainA == <<(<<10, 0, 0>>), (<<14, 0, 0>>), ObstaclePos, (<<18, 0, 0>>), (<<22, 0, 0>>),
            (<<26, 0, 0>>)>>
ClusterB == <<(<<40, 0, 0>>), (<<44, 0, 0>>)>>

\* Positions whose neighbourhood the feature engine finds open on one side.
FrontierPos == {<<26, 0, 0>>, <<44, 0, 0>>}
\* Positions whose fitted normal points downwards.
FlippedPos == {<<44, 0, 0>>}

\* The shapes of sensor clouds: a cloud of n points cycles through a shape.
CloudShapes == {ChainA, ClusterB}
CloudSizes == {min_pts - 1, min_pts}

\* sensor_msgs::PointCloud2 as input_cloud_received reads it: n points.
MakeCloud(shape, n) == Array([i \in 1..n |-> shape[((i - 1) % Len(shape)) + 1]])

\* A sensor cloud that probes the filters of input_cloud_received: points
\* at 0.5 m, 1 m, 1.6 m, 2.2 m, 25 m and 26 m from the sensor and a point
\* without a return (NaN coordinates).  GateSize points of it leave min_pts
\* or more after the filters.
GateShape == <<(<<5, 0, 0>>), (<<10, 0, 0>>), (<<16, 0, 0>>), (<<22, 0, 0>>),
               (<<250, 0, 0>>), (<<260, 0, 0>>), NaNVec>>
GateSize == 32
\* Where the transform source can place the sensor in the map, and a
\* teammate in the sensor frame.
SensorOffset == <<0, 8, 0>>
TeammateInSensor == <<26, 0, 0>>

\* What the cloud handlers read of a sensor_msgs::PointCloud2 besides its
\* points: whether row_step = point_step * width, the age of the stamp in
\* seconds, the frame, and whether the position and the normal field exist.
CloudMsg(row_step_ok, age, frame, has_position, has_normal) ==
    [row_step_ok |-> row_step_ok, age |-> age, frame |-> frame,
     has_position |-> has_position, has_normal |-> has_normal]
\* A fresh, well-formed cloud in the sensor frame, and the clouds that
\* differ from it in one respect.
ValidCloud == CloudMsg(TRUE, 0, "sensor", TRUE, TRUE)
MapFrameCloud == CloudMsg(TRUE, 0, "map", TRUE, TRUE)
OldCloud == CloudMsg(TRUE, max_cloud_age_ + 4, "sensor", TRUE, TRUE)
BadStrideCloud == CloudMsg(FALSE, 0, "sensor", TRUE, TRUE)
NoPositionCloud == CloudMsg(TRUE, 0, "sensor", FALSE, TRUE)
NoNormalCloud == CloudMsg(TRUE, 0, "sensor", TRUE, FALSE)
CloudMsgs ==
    {ValidCloud, MapFrameCloud, OldCloud, BadStrideCloud, NoPositionCloud, NoNormalCloud}
\* The topics input_cloud_received publishes on when they have subscribers.
SubscribedSets == {{}, {"local_map", "map"}}

\* Poses the transform source can report for the robot and for a teammate.
SelfPoses == {<<42, 0, 0>>}
OtherPoses == {<<26, 0, 0>>}
\* Poses reported while the viewpoint ledger is followed: the robot also
\* from beyond max_vp_distance_ of the chain's first point, a teammate also
\* from beyond max_vp_distance_ of the chain's far end.
LedgerSelfPoses == {<<42, 0, 0>>, <<62, 0, 0>>}
LedgerOtherPoses == {<<26, 0, 0>>, <<-30, 0, 0>>}
\* Positions a plan request names as start and as goal.
GivenStart == <<11, 0, 0>>
GivenGoal == <<44, 0, 0>>

\* A second world: a horizontal 3x3 grid of traversable points spaced 0.4 m,
\* so that under neighborhood_radius_ = 0.5 m only axis neighbours are
\* joined (a diagonal is 0.57 m long).  Rows are inserted one after another.
Grid3x3 == <<(<<10, -4, 0>>), (<<14, -4, 0>>), (<<18, -4, 0>>),
             (<<10, 0, 0>>), (<<14, 0, 0>>), (<<18, 0, 0>>),
             (<<10, 4, 0>>), (<<14, 4, 0>>), (<<18, 4, 0>>)>>
GridCenter == <<14, 0, 0>>
GridCorner == <<18, 4, 0>>
\* The robot's base, 0.1 m above the grid's center.
GridAbove == <<14, 0, 1>>


\* ------------------------------------------------------------ the map
\* Orientation of a pose, as the three columns of its rotation matrix.
IdentityFrame == [x |-> <<1, 0, 0>>, y |-> <<0, 1, 0>>, z |-> <<0, 0, 1>>]
\* Orientation the transform source reports for the robot (yaw of 90 deg).
TfFrame == [x |-> <<0, 1, 0>>, y |-> <<-1, 0, 0>>, z |-> <<0, 0, 1>>]

\* What the feature engine (Map::update_dirty) derives at a position.
LabelFlags(pos) ==
    IF pos = ObstaclePos THEN {"NORMAL_OK", "OBSTACLE"}
    ELSE IF pos \in FrontierPos THEN {"NORMAL_OK", "TRAVERSABLE", "EDGE"}
    ELSE {"NORMAL_OK", "TRAVERSABLE"}
LabelEdgeNeighbors(pos) == IF pos \in FrontierPos THEN 1 ELSE 0
LabelNormal(pos) == IF pos \in FlippedPos THEN <<0, 0, -1>> ELSE <<0, 0, 1>>

\* A freshly inserted Point: no label, never visited, no planning results.
NewPoint(pos) ==
    [position |-> pos, normal |-> <<0, 0, 0>>, flags |-> {"DIRTY"},
     num_edge_neighbors |-> 0,
     dist_to_actor |-> NaN, actor_last_visit |-> NaN,
     dist_to_other_actors |-> NaN, other_actors_last_visit |-> NaN,
     path_cost |-> NaN, reward |-> NaN, relative_cost |-> NaN]

\* Whether positions a, b (dm) lie within r (cm) of each other; the index
\* compares squared distances.
WithinRadius(a, b, r) == 100 * SqNorm(VSub(a, b)) <= r * r
\* The same between stored positions, of which one may be NaN: no
\* comparison with a NaN distance succeeds.
FWithinRadius(a, b, r) == a[1] # NaN /\ b[1] # NaN /\ WithinRadius(a, b, r)

\* Map::nearby_indices: the hits of a radius query, as a set.
nearby_indices(cl, p, r) == {v \in DOMAIN cl : WithinRadius(cl[v].position, p, r)}

\* The orders a radius query can return a hit set in.  The query promises no
\* order; for each hit the order that starts with it and goes on by index
\* stands for all orders that start with it.
RECURSIVE SortedSeq(_)
SortedSeq(S) ==
    IF S = {} THEN <<>>
    ELSE LET m == CHOOSE x \in S : \A y \in S : x <= y
         IN <<m>> \o SortedSeq(S \ {m})
FirstThenRest(sorted) ==
    {<<f>> \o SelectSeq(sorted, LAMBDA x : x # f) : f \in {sorted[i] : i \in DOMAIN sorted}}
QueryOrders(S) == IF S = {} THEN {<<>>} ELSE FirstThenRest(SortedSeq(S))

\* Map::merge: candidates are taken in order; one closer than
\* points_min_dist_ to a point already in the map is dropped, the others
\* (among them a candidate with NaN coordinates, whose distance to any point
\* is NaN) are appended.
RECURSIVE merge(_, _, _)
merge(cl, pts, i) ==
    IF i > Len(pts) THEN cl
    ELSE IF /\ pts[i][1] # NaN
            /\ \E v \in DOMAIN cl :
                  /\ cl[v].position[1] # NaN
                  /\ 100 * SqNorm(VSub(cl[v].position, pts[i]))
                         < points_min_dist_ * points_min_dist_
         THEN merge(cl, pts, i + 1)
         ELSE merge(Append(cl, NewPoint(pts[i])), pts, i + 1)

\* The dirty set after a merge of old into new: the added points and the
\* points within twice the neighbourhood radius of one.
DirtyAfter(old, new) ==
    {v \in DOMAIN new :
        \E a \in DOMAIN new \ DOMAIN old :
            FWithinRadius(new[v].position, new[a].position, 2 * map_neighborhood_radius_)}

\* Map::update_dirty: recompute the features and labels of the dirty points.
update_dirty(cl, dirty) ==
    Array([v \in DOMAIN cl |->
        IF v \in dirty
        THEN [cl[v] EXCEPT !.flags = LabelFlags(cl[v].position),
                           !.num_edge_neighbors = LabelEdgeNeighbors(cl[v].position),
                           !.normal = LabelNormal(cl[v].position)]
        ELSE cl[v]])

\* ------------------------------------------------------------ the graph
IsTraversable(cl, v) == "TRAVERSABLE" \in cl[v].flags

\* Graph out-edges: the neighbours of v within the neighbourhood radius,
\* with both ends traversable.
out_edges(cl, v) ==
    IF ~IsTraversable(cl, v) THEN {}
    ELSE {u \in DOMAIN cl : /\ u # v
                            /\ IsTraversable(cl, u)
                            /\ WithinRadius(cl[v].position, cl[u].position,
                                            map_neighborhood_radius_)}

\* EdgeCosts: the Euclidean length of the edge, in centimetres.
edge_cost(cl, v, u) == Norm(VSub(cl[u].position, cl[v].position))

\* boost::dijkstra_shortest_paths_no_color_map from start: every vertex
\* starts at distance infinity with itself as predecessor, the start at 0;
\* the closest open vertex is settled and its out-edges relaxed with
\* closed_plus and less.
RECURSIVE DijkstraLoop(_, _, _, _)
\* Variant: relaxation that charges every edge one metre instead of its length.
Relax_UnitCost(cl, dist, pred, done, u, improved) ==
    DijkstraLoop(cl,
        Array([w \in DOMAIN cl |-> IF w \in improved THEN dist[u] + 100 ELSE dist[w]]),
        Array([w \in DOMAIN cl |-> IF w \in improved THEN u ELSE pred[w]]),
        done \cup {u})

\* Relaxation of the out-edges of the settled vertex u that improve a
\* distance.
Relax(cl, dist, pred, done, u, improved) ==
    DijkstraLoop(cl,
        Array([w \in DOMAIN cl |->
                  IF w \in improved THEN dist[u] + edge_cost(cl, u, w) ELSE dist[w]]),
        Array([w \in DOMAIN cl |-> IF w \in improved THEN u ELSE pred[w]]),
        done \cup {u})
Settle(cl, dist, pred, done, u) ==
    Relax(cl, dist, pred, done, u,
          {w \in out_edges(cl, u) : FLess(dist[u] + edge_cost(cl, u, w), dist[w])})
DijkstraOpen(cl, dist, pred, done, open) ==
    IF open = {} THEN [path_costs |-> dist, predecessor |-> pred]
    ELSE Settle(cl, dist, pred, done,
                CHOOSE c \in open :
                    \A w \in open : dist[c] < dist[w] \/ (dist[c] = dist[w] /\ c <= w))
DijkstraLoop(cl, dist, pred, done) ==
    DijkstraOpen(cl, dist, pred, done, {v \in DOMAIN cl \ done : IsFinite(dist[v])})

\* Variant: the search whose start vertex is not given distance zero.
dijkstra_StartNotZeroed(cl, v_start) ==
    DijkstraLoop(cl,
                 Array([v \in DOMAIN cl |-> Inf]),
                 Array([v \in DOMAIN cl |-> v]),
                 {})

\* The search plan runs from v_start: path_costs and predecessor.
dijkstra_shortest_paths(cl, v_start) ==
    DijkstraLoop(cl,
                 Array([v \in DOMAIN cl |-> IF v = v_start THEN 0 ELSE Inf]),
                 Array([v \in DOMAIN cl |-> v]),
                 {})

\* ---------------------------------------------------------- the planner
\* Variant: the reward term that clips the distance into
\* [min_vp_distance_, max_vp_distance_] instead of zeroing it below the minimum.
distance_reward_Clipped(distance) ==
    LET r0 == IF IsFinite(distance) THEN distance ELSE max_vp_distance_
        r1 == IF FGeq(r0, min_vp_distance_) THEN r0 ELSE min_vp_distance_
        r2 == IF r1 > max_vp_distance_ THEN max_vp_distance_ ELSE r1
    IN (r2 * 1000000) \div max_vp_distance_

\* Planner::distance_reward; the result is in millionths.
distance_reward(distance) ==
    LET r0 == IF IsFinite(distance) THEN distance ELSE max_vp_distance_
        r1 == IF FGeq(r0, min_vp_distance_) THEN r0 ELSE 0
    IN (r1 * 1000000) \div max_vp_distance_

\* The staging area of plan's reward loop, in decimetres.
InStagingArea(pos) ==
    /\ pos[1] >= -600 /\ pos[1] <= 0
    /\ pos[2] >= -300 /\ pos[2] <= 300
    /\ pos[3] >= -300 /\ pos[1] <= 300

\* 1 + pow(dist_from_origin, 4) for a decimetre position, in hundredths;
\* beyond 20 m the squared norm is rounded to tens before it is squared.
StagingDivisor(pos) ==
    LET s == SqNorm(pos)
    IN IF s <= 40000 THEN 100 + (s * s) \div 100
       ELSE 100 + (s \div 10) * (s \div 10)

\* reward_ as plan's exploration loop computes it for point pt (millionths).
PointReward(pt) ==
    LET r_self == distance_reward(pt.dist_to_actor)
        r_other == distance_reward(pt.other_actors_last_visit)
        base == FMax(FMin(r_self, r_other), (self_factor_pct * r_self) \div 100)
        edged == base * (1 + pt.num_edge_neighbors)
    IN IF InStagingArea(pt.position)
       THEN (edged * 100) \div StagingDivisor(pt.position)
       ELSE edged

\* path_cost_ / reward_ as a float division (hundredths).
RelativeCost(path_cost, reward) ==
    IF path_cost = NaN \/ reward = NaN THEN NaN
    ELSE IF reward = 0 THEN (IF path_cost = 0 THEN NaN ELSE Inf)
    ELSE (path_cost * 1000000) \div reward

\* The derived attributes the exploration loop writes to every point.
ScorePoints(cl, path_costs) ==
    Array([v \in DOMAIN cl |->
        LET pc == IF IsFinite(path_costs[v]) THEN path_costs[v] ELSE NaN
            rw == PointReward(cl[v])
        IN [cl[v] EXCEPT !.reward = rw, !.path_cost = pc,
                         !.relative_cost = RelativeCost(pc, rw)]])

\* Variant: the exploration test without the path-cost floor.
GoalCandidate_NoFloor(pt, goal_cost) ==
    /\ FGreater(pt.reward, 0)
    /\ FLess(pt.relative_cost, goal_cost)

\* The exploration loop's test: "Avoid short paths and paths with no utility".
GoalCandidate(pt, goal_cost) ==
    /\ FGreater(pt.reward, 0)
    /\ FGreater(pt.path_cost, path_cost_floor)
    /\ FLess(pt.relative_cost, goal_cost)

\* The exploration loop's running minimum over v = v, v+1, ... of scored points.
RECURSIVE ExploreGoal(_, _, _, _)
ExploreGoal(cl, v, goal_cost, v_goal) ==
    IF v > Len(cl) THEN v_goal
    ELSE IF GoalCandidate(cl[v], goal_cost)
         THEN ExploreGoal(cl, v + 1, cl[v].relative_cost, v)
         ELSE ExploreGoal(cl, v + 1, goal_cost, v_goal)

\* Variant: the directed test that keeps the first reachable vertex it meets.
CloserToGoal_FirstReachable(path_cost, dist, best_dist) ==
    IsFinite(path_cost) /\ FLess(dist, best_dist) /\ best_dist = Inf

\* The directed loop's test on vertex v at distance dist from the goal.
CloserToGoal(path_cost, dist, best_dist) ==
    IsFinite(path_cost) /\ FLess(dist, best_dist)

\* The directed loop: the finite-cost vertex closest to goal_position.
RECURSIVE DirectedGoal(_, _, _, _, _, _)
DirectedGoal(cl, path_costs, goal_position, v, best_dist, v_goal) ==
    IF v > Len(cl) THEN v_goal
    ELSE LET dist == Norm(VSub(cl[v].position, goal_position))
         IN IF CloserToGoal(path_costs[v], dist, best_dist)
            THEN DirectedGoal(cl, path_costs, goal_position, v + 1, dist, v)
            ELSE DirectedGoal(cl, path_costs, goal_position, v + 1, best_dist, v_goal)

\* Planner::trace_path_indices: goal back to start along predecessor,
\* reversed.
RECURSIVE TraceBack(_, _, _)
TraceBack(start, v, predecessor) ==
    IF v = start THEN <<v>>
    ELSE TraceBack(start, predecessor[v], predecessor) \o <<v>>
\* Variant: the traced path without its start vertex.
trace_path_indices_NoStart(start, goal, predecessor) ==
    Tail(TraceBack(start, goal, predecessor))
\* Variant: the trace that is not reversed, goal first.
trace_path_indices_NotReversed(start, goal, predecessor) ==
    LET p == TraceBack(start, goal, predecessor)
    IN [i \in 1..Len(p) |-> p[Len(p) + 1 - i]]

trace_path_indices(start, goal, predecessor) == TraceBack(start, goal, predecessor)

\* The orientation append_path gives the pose at pos after a pose at prev:
\* columns x (tangent, before normalisation), y = z cross x, z (the normal,
\* turned upwards).
PoseFrame(prev, pos, normal) ==
    LET x == VSub(pos, prev)
        z == IF Dot(normal, <<0, 0, 1>>) < 0 THEN VNeg(normal) ELSE normal
    IN [x |-> x, y |-> Cross(z, x), z |-> z]

\* Planner::append_path onto a path that already holds poses.
RECURSIVE append_path(_, _, _, _)
append_path(path_indices, i, cl, poses) ==
    IF i > Len(path_indices) THEN poses
    ELSE LET pt == cl[path_indices[i]]
             pose == [position |-> pt.position,
                      orientation |->
                          IF poses # <<>>
                          THEN PoseFrame(poses[Len(poses)].position, pt.position, pt.normal)
                          ELSE IdentityFrame]
         IN append_path(path_indices, i + 1, cl, Append(poses, pose))

\* Variant: the search radius that never drops below neighborhood_radius_.
StartTolerance_Max(tolerance) ==
    IF tolerance > neighborhood_radius_ THEN tolerance ELSE neighborhood_radius_

\* The radius plan searches for start candidates in.
StartTolerance(tolerance) ==
    IF tolerance > 0 THEN tolerance ELSE neighborhood_radius_

\* Variant: the start candidates without the TRAVERSABLE filter.
TraversableHits_Unfiltered(cl, hits) == hits

\* The traversable start candidates, in the order of the radius query hits.
TraversableHits(cl, hits) == SelectSeq(hits, LAMBDA v : IsTraversable(cl, v))

\* The start vertex plan picks among the candidates.
ChooseStart(traversable, rnd) ==
    IF random_start_ THEN traversable[(rnd % Len(traversable)) + 1]
    ELSE traversable[1]


\* ------------------------------------------------------------- the state
VARIABLES
    initialized,       \* initialized_
    time_initialized,  \* time_initialized_ (seconds)
    last_request,      \* last_request_
    cloud,             \* map_.cloud_: the point store, a sequence of Points
    viewpoints,        \* viewpoints_: the robot's sampled positions
    other_viewpoints,  \* other_viewpoints_: the teammates' sampled positions
    now,               \* the clock, in seconds: one second per viewpoint tick
    call,              \* the handler whose call is ending, "none" between calls
    res,               \* return value and response of the plan call that is ending
    last_plan,         \* the locals of the plan call that is ending
    path_pub,          \* what the call that is ending published on path_pub_
    ingest,            \* the outcome of the cloud handler whose call is ending
    filter_robots,     \* filter_robots_
    at,                \* the statement each callback thread is at
    held,              \* per mutex: the thread that owns it and how many times
    locals,            \* per thread: the locals of the handler it runs
    dirty,             \* the map's dirty set: the indices to recompute
    map_dirty,         \* what the ingestion in progress published on map_dirty_pub_
    params,            \* the labelling parameters of the map, as last stored
    pass               \* the parameters read by the recomputation pass in progress

\* The variables of the lock-level view of the callbacks.
threads == <<at, held, locals>>

\* The feature engine's view of the map: followed statement by statement
\* in EngineSpec, and left as it is between handlers everywhere else.
engine == <<dirty, map_dirty, params, pass>>

vars == <<initialized, time_initialized, last_request, cloud, viewpoints,
          other_viewpoints, now, call, res, last_plan, path_pub, ingest,
         filter_robots, at, held, locals, dirty, map_dirty, params, pass>>

Pose(position, orientation) == [position |-> position, orientation |-> orientation]
Request(start, goal, tolerance) ==
    [start |-> Pose(start, IdentityFrame), goal |-> Pose(goal, IdentityFrame),
     tolerance |-> tolerance]

\* The requests the plan service receives: exploration from the robot's own
\* pose with no tolerance, exploration from a given start with a small
\* tolerance, and directed plans from a given start and from the own pose.
Requests ==
    {Request(NaNVec, NaNVec, 0),
     Request(GivenStart, NaNVec, 30),
     Request(GivenStart, GivenGoal, 0),
     Request(NaNVec, GivenGoal, default_tolerance)}

\* Answers of the transform source: a failure, or a translation.
TfFail == [ok |-> FALSE, translation |-> NaNVec]
TfOk(translation) == [ok |-> TRUE, translation |-> translation]
SelfTfs == {TfFail} \cup {TfOk(p) : p \in SelfPoses}
OtherTfs == {TfFail} \cup {TfOk(p) : p \in OtherPoses}
CloudTfs == {TfFail, TfOk(Origin)}

\* Values time_initialized_ can hold before the constructor assigns it.
UninitTimes == {0, 3}

NoResponse == [ret |-> FALSE, poses |-> <<>>]
NoPlan ==
    [req |-> Request(NaNVec, NaNVec, 0), err |-> "none",
     start |-> Pose(NaNVec, IdentityFrame), start_tol |-> 0, hits |-> <<>>,
     v_start |-> INVALID_VERTEX, v_goal |-> INVALID_VERTEX,
     path_costs |-> <<>>, predecessor |-> <<>>, path_indices |-> <<>>]

\* What a cloud handler or the discovery of teammates leaves for its caller:
\* how it ended, the teammates found, the candidates handed to Map::merge
\* and the topics published on.
Ingest(outcome, robots, kept, published) ==
    [outcome |-> outcome, robots |-> robots, kept |-> kept, published |-> published]
NoIngest == Ingest("none", <<>>, <<>>, {})
\* The outcomes that are exceptions leaving the handler.
Thrown == {"NotInitialized", "FieldMissing"}

\* The threads: the constructor's, and those of the callbacks of the cloud
\* subscription, the viewpoints timer, the planning timer, the plan service
\* and the parameter-reload timer.
Threads == {"main", "ingest", "sampler", "timer", "rpc", "params"}
\* The recursive mutexes the callbacks lock.
Mutexes == {"viewpoints", "cloud", "index", "dirty", "initialized", "last_request"}
Unowned == [owner |-> "none", count |-> 0]
\* The locals of a handler that is not running.
NoLocals ==
    [req |-> Request(NaNVec, NaNVec, 0), start |-> Pose(NaNVec, IdentityFrame),
     points |-> <<>>, actor |-> "none"]

\* The constructor up to configure(): exploration request, not initialized,
\* no callback running, every mutex free.
Constructed ==
    /\ initialized = FALSE
    /\ time_initialized \in UninitTimes
    /\ last_request = Request(NaNVec, NaNVec, default_tolerance)
    /\ cloud = <<>>
    /\ viewpoints = <<>>
    /\ other_viewpoints = <<>>
    /\ now = 0
    /\ call = "none"
    /\ res = NoResponse
    /\ last_plan = NoPlan
    /\ path_pub = <<>>
    /\ ingest = NoIngest
    /\ at = [t \in Threads |-> IF t = "main" THEN "find_robots" ELSE "idle"]
    /\ held = [m \in Mutexes |-> Unowned]
    /\ locals = [t \in Threads |-> NoLocals]
    /\ dirty = {}
    /\ map_dirty = <<>>
    /\ params = "configured"
    /\ pass = {}

\* The constructor's state with filter_robots_ at its default.
Init == Constructed /\ filter_robots = FALSE

\* Planner::find_robots over robot_frames_ of one teammate and the robot,
\* with the transform source answering tf_robot for the teammate: the
\* positions of the teammates whose lookup succeeded.
find_robots(tf_robot) == IF tf_robot.ok THEN <<tf_robot.translation>> ELSE <<>>

\* Variant: a constructor that sets the flag only if every teammate answered.
Startup_WaitForAll(tf_robot) ==
    /\ call = "none"
    /\ ~initialized
    /\ call' = "startup"
    /\ ingest' = Ingest("discovered", find_robots(tf_robot), <<>>, {})
    /\ initialized' = tf_robot.ok
    /\ time_initialized' = IF tf_robot.ok THEN now ELSE time_initialized
    /\ at' = [at EXCEPT !["main"] = "done"]
    /\ UNCHANGED <<filter_robots, engine, held, locals, last_request, cloud, viewpoints,
                   other_viewpoints, now, res, last_plan, path_pub>>

\* The end of the constructor: find_robots has returned with the teammates
\* that answered (its result is dropped), the flag is set and the
\* initialization time taken.
Startup(tf_robot) ==
    /\ call = "none"
    /\ ~initialized
    /\ call' = "startup"
    /\ ingest' = Ingest("discovered", find_robots(tf_robot), <<>>, {})
    /\ initialized' = TRUE
    /\ time_initialized' = now
    /\ at' = [at EXCEPT !["main"] = "done"]
    /\ UNCHANGED <<filter_robots, engine, held, locals, last_request, cloud, viewpoints,
                   other_viewpoints, now, res, last_plan, path_pub>>

\* A handler returns to its caller: its locals and its response are gone.
Return ==
    /\ call # "none"
    /\ call' = "none"
    /\ res' = NoResponse
    /\ last_plan' = NoPlan
    /\ path_pub' = <<>>
    /\ ingest' = NoIngest
    /\ UNCHANGED <<filter_robots, engine, threads, initialized, time_initialized, last_request, cloud, viewpoints,
                   other_viewpoints, now>>

\* ------------------------------------------------------------ plan
\* What a plan call yields: its return value, the response's poses, the
\* point store and the stored request it leaves, and its locals.
Outcome(ret, poses, cl, lastreq, log) ==
    [ret |-> ret, poses |-> poses, cloud |-> cl, last_request |-> lastreq, log |-> log]

\* Variant: start resolution that goes on with the request's start when the
\* transform lookup fails.
ResolveStart_IgnoreFailure(req, tf) ==
    IF valid_point(req.start.position) THEN [ok |-> TRUE, pose |-> req.start]
    ELSE [ok |-> TRUE, pose |-> IF tf.ok THEN Pose(tf.translation, TfFrame) ELSE req.start]

\* plan's start pose: the request's if its position is finite, else the
\* robot pose from the transform source.
ResolveStart(req, tf) ==
    IF valid_point(req.start.position) THEN [ok |-> TRUE, pose |-> req.start]
    ELSE IF tf.ok THEN [ok |-> TRUE, pose |-> Pose(tf.translation, TfFrame)]
    ELSE [ok |-> FALSE, pose |-> req.start]

\* The hits of plan's start query for the resolved start pose.
StartHits(cl, req, start) ==
    nearby_indices(cl, start.position, StartTolerance(req.tolerance))

\* Variant: the success exit that does not put the start pose in the reply.
PlanTraced_NoStartPose(req, start, cl, log, v_goal, path_indices) ==
    Outcome(TRUE, append_path(path_indices, 1, cl, <<>>), cl, req,
            [log EXCEPT !.v_goal = v_goal, !.path_indices = path_indices])

\* plan's success exit: the reply holds the start pose and the traced path.
PlanTraced(req, start, cl, log, v_goal, path_indices) ==
    Outcome(TRUE, append_path(path_indices, 1, cl, <<start>>), cl, req,
            [log EXCEPT !.v_goal = v_goal, !.path_indices = path_indices])

\* plan after goal selection; err names the failure of an invalid goal.
PlanTrace(req, start, cl, log, dj, v_goal, err) ==
    IF v_goal = INVALID_VERTEX
    THEN Outcome(FALSE, <<>>, cl, req, [log EXCEPT !.err = err])
    ELSE PlanTraced(req, start, cl, log, v_goal,
                    trace_path_indices(log.v_start, v_goal, dj.predecessor))

\* Variant: the exploration branch whose goal starts out as the start vertex.
PlanExplore_GoalPreset(req, start, scored, log, dj) ==
    PlanTrace(req, start, scored, log, dj,
              ExploreGoal(scored, 1, Inf, log.v_start), "NoGoal")

\* plan's exploration branch over the scored points.
PlanExplore(req, start, scored, log, dj) ==
    PlanTrace(req, start, scored, log, dj,
              ExploreGoal(scored, 1, Inf, INVALID_VERTEX), "NoGoal")

\* Variant: plan that scores the points before either goal selection.
PlanGoal_ScoreAlways(req, start, cl, log, dj) ==
    IF valid_point(req.goal.position)
    THEN PlanTrace(req, start, ScorePoints(cl, dj.path_costs), log, dj,
                   DirectedGoal(cl, dj.path_costs, req.goal.position, 1, Inf, INVALID_VERTEX),
                   "NoPath")
    ELSE PlanExplore(req, start, ScorePoints(cl, dj.path_costs), log, dj)

\* plan once the shortest paths are known: goal selection, trace, path.
PlanGoal(req, start, cl, log, dj) ==
    IF valid_point(req.goal.position)
    THEN PlanTrace(req, start, cl, log, dj,
                   DirectedGoal(cl, dj.path_costs, req.goal.position, 1, Inf, INVALID_VERTEX),
                   "NoPath")
    ELSE PlanExplore(req, start, ScorePoints(cl, dj.path_costs), log, dj)

\* plan from the shortest-path step on.
PlanPaths(req, start, cl, log, v_start, dj) ==
    PlanGoal(req, start, cl,
             [log EXCEPT !.v_start = v_start, !.path_costs = dj.path_costs,
                         !.predecessor = dj.predecessor],
             dj)

\* plan from the choice of the start vertex on.
PlanStart(req, start, cl, log, traversable, rnd) ==
    IF traversable = <<>>
    THEN Outcome(FALSE, <<>>, cl, req, [log EXCEPT !.err = "NoStart"])
    ELSE PlanPaths(req, start, cl, log, ChooseStart(traversable, rnd),
                   dijkstra_shortest_paths(cl, ChooseStart(traversable, rnd)))

\* Variant: plan under the map locks without the map size check.
PlanLocked_NoSizeCheck(req, start, cl, log, hits, rnd) ==
    PlanStart(req, start, cl,
              [log EXCEPT !.start_tol = StartTolerance(req.tolerance), !.hits = hits],
              TraversableHits(cl, hits), rnd)

\* plan under the map locks, for the resolved start pose.
PlanLocked(req, start, cl, log, hits, rnd) ==
    IF Len(cl) < K_NEIGHBORS
    THEN Outcome(FALSE, <<>>, cl, req, [log EXCEPT !.err = "MapTooSmall"])
    ELSE PlanStart(req, start, cl,
                   [log EXCEPT !.start_tol = StartTolerance(req.tolerance), !.hits = hits],
                   TraversableHits(cl, hits), rnd)

\* plan after the initialized check, with the start resolved to rs.
PlanResolved(req, rs, log, hits, rnd) ==
    IF ~rs.ok
    THEN Outcome(FALSE, <<>>, cloud, req, [log EXCEPT !.err = "TransformUnavailable"])
    ELSE PlanLocked(req, rs.pose, cloud, [log EXCEPT !.start = rs.pose], hits, rnd)

\* Variant: plan without the initialized_ check.
plan_NoInitCheck(req, tf, hits, rnd) ==
    PlanResolved(req, ResolveStart(req, tf), [NoPlan EXCEPT !.req = req], hits, rnd)

\* Planner::plan for request req, with the transform source answering tf,
\* the start query returning hits and std::rand() returning rnd.
plan(req, tf, hits, rnd) ==
    IF ~initialized
    THEN Outcome(FALSE, <<>>, cloud, last_request,
                 [NoPlan EXCEPT !.req = req, !.err = "NotInitialized"])
    ELSE PlanResolved(req, ResolveStart(req, tf), [NoPlan EXCEPT !.req = req], hits, rnd)

\* The inputs a plan call for req can meet in the current state.
PlanTfs(req) == IF valid_point(req.start.position) THEN {TfFail} ELSE SelfTfs
PlanHits(req, tf) ==
    IF initialized /\ ResolveStart(req, tf).ok /\ Len(cloud) >= K_NEIGHBORS
    THEN QueryOrders(StartHits(cloud, req, ResolveStart(req, tf).pose))
    ELSE {<<>>}
RandValues == IF random_start_ THEN {0, 1} ELSE {0}

\* The plan service (get_plan) called with req.
PlanService(req) ==
    /\ call = "none"
    /\ call' = "service"
    /\ \E tf \in PlanTfs(req) : \E hits \in PlanHits(req, tf) : \E rnd \in RandValues :
         \E o \in {plan(req, tf, hits, rnd)} :
            /\ res' = [ret |-> o.ret, poses |-> o.poses]
            /\ cloud' = o.cloud
            /\ last_request' = o.last_request
            /\ last_plan' = o.log
    /\ UNCHANGED <<filter_robots, engine, threads, initialized, time_initialized, viewpoints, other_viewpoints, now,
                   path_pub, ingest>>

\* Variant: the timer callback that publishes whatever plan left in res.
PlanningTimerCb_AlwaysPublish ==
    /\ call = "none"
    /\ call' = "timer"
    /\ LET req == last_request
       IN \E tf \in PlanTfs(req) : \E hits \in PlanHits(req, tf) : \E rnd \in RandValues :
            \E o \in {plan(req, tf, hits, rnd)} :
               /\ res' = [ret |-> o.ret, poses |-> o.poses]
               /\ cloud' = o.cloud
               /\ last_request' = o.last_request
               /\ last_plan' = o.log
               /\ path_pub' = <<o.poses>>
    /\ UNCHANGED <<filter_robots, engine, threads, initialized, time_initialized, viewpoints, other_viewpoints, now,
                   ingest>>

\* Planner::planning_timer_cb: plan for a copy of the stored request and
\* publish the path if plan succeeded.
PlanningTimerCb ==
    /\ call = "none"
    /\ call' = "timer"
    /\ LET req == last_request
       IN \E tf \in PlanTfs(req) : \E hits \in PlanHits(req, tf) : \E rnd \in RandValues :
            \E o \in {plan(req, tf, hits, rnd)} :
               /\ res' = [ret |-> o.ret, poses |-> o.poses]
               /\ cloud' = o.cloud
               /\ last_request' = o.last_request
               /\ last_plan' = o.log
               /\ path_pub' = IF o.ret THEN <<o.poses>> ELSE <<>>
    /\ UNCHANGED <<filter_robots, engine, threads, initialized, time_initialized, viewpoints, other_viewpoints, now,
                   ingest>>

\* ------------------------------------------------------ gather_viewpoints
\* Planner::time_from_init, in hundredths of a second.
time_from_init(time) == 100 * (time - time_initialized)

\* The length sqrt(q.dist_) of the hit at v for a query at pos, centimetres.
HitDistance(cl, v, pos) == Norm(VSub(cl[v].position, pos))

\* Variant: the robot's visit that overwrites the stored distance.
VisitSelf_Overwrite(cl, pos, t) ==
    Array([v \in DOMAIN cl |->
        IF WithinRadius(cl[v].position, pos, max_vp_distance_)
        THEN [cl[v] EXCEPT !.dist_to_actor = HitDistance(cl, v, pos),
                           !.actor_last_visit = t]
        ELSE cl[v]])

\* The loop of gather_viewpoints for the robot itself at pos, time t.
VisitSelf(cl, pos, t) ==
    Array([v \in DOMAIN cl |->
        IF WithinRadius(cl[v].position, pos, max_vp_distance_)
        THEN [cl[v] EXCEPT
                 !.dist_to_actor = IF IsFinite(cl[v].actor_last_visit)
                                   THEN FMin(cl[v].dist_to_actor, HitDistance(cl, v, pos))
                                   ELSE HitDistance(cl, v, pos),
                 !.actor_last_visit = t]
        ELSE cl[v]])

\* Variant: a teammate's visit that stamps the time without the distance.
VisitOther_StampOnly(cl, pos, t) ==
    Array([v \in DOMAIN cl |->
        IF WithinRadius(cl[v].position, pos, max_vp_distance_)
        THEN [cl[v] EXCEPT !.other_actors_last_visit = t]
        ELSE cl[v]])

\* The loop of gather_viewpoints for a teammate at pos, time t.
VisitOther(cl, pos, t) ==
    Array([v \in DOMAIN cl |->
        IF WithinRadius(cl[v].position, pos, max_vp_distance_)
        THEN [cl[v] EXCEPT
                 !.dist_to_other_actors =
                     IF IsFinite(cl[v].other_actors_last_visit)
                     THEN FMin(cl[v].dist_to_other_actors, HitDistance(cl, v, pos))
                     ELSE HitDistance(cl, v, pos),
                 !.other_actors_last_visit = t]
        ELSE cl[v]])

\* Variant: a tick that returns at the first actor whose lookup fails.
GatherTick_AbortOnFailure(tf_other, tf_self, ticks) ==
    /\ call = "none"
    /\ now < ticks
    /\ now' = now + 1
    /\ cloud' = IF ~tf_other.ok THEN cloud
                ELSE LET after_other == VisitOther(cloud, tf_other.translation,
                                                   time_from_init(now' - 2))
                     IN IF tf_self.ok
                        THEN VisitSelf(after_other, tf_self.translation,
                                       time_from_init(now' - 1))
                        ELSE after_other
    /\ other_viewpoints' = IF tf_other.ok
                           THEN Append(other_viewpoints, tf_other.translation)
                           ELSE other_viewpoints
    /\ viewpoints' = IF tf_other.ok /\ tf_self.ok
                     THEN Append(viewpoints, tf_self.translation)
                     ELSE viewpoints
    /\ UNCHANGED <<filter_robots, engine, threads, initialized, time_initialized, last_request, call, res, last_plan,
                   path_pub, ingest>>

\* Planner::gather_viewpoints at a timer tick: robot_frames_ holds a
\* teammate and the robot; tf_other and tf_self are the transform source's
\* answers.  The robot's pose is looked up one second, a teammate's two
\* seconds before the tick.  The clock stops after ticks ticks.
GatherTick(tf_other, tf_self, ticks) ==
    /\ call = "none"
    /\ now < ticks
    /\ now' = now + 1
    /\ LET after_other == IF tf_other.ok
                          THEN VisitOther(cloud, tf_other.translation,
                                          time_from_init(now' - 2))
                          ELSE cloud
       IN cloud' = IF tf_self.ok
                   THEN VisitSelf(after_other, tf_self.translation,
                                  time_from_init(now' - 1))
                   ELSE after_other
    /\ other_viewpoints' = IF tf_other.ok
                           THEN Append(other_viewpoints, tf_other.translation)
                           ELSE other_viewpoints
    /\ viewpoints' = IF tf_self.ok THEN Append(viewpoints, tf_self.translation)
                     ELSE viewpoints
    /\ UNCHANGED <<filter_robots, engine, threads, initialized, time_initialized, last_request, call, res, last_plan,
                   path_pub, ingest>>

GatherViewpoints(tf_other, tf_self) == GatherTick(tf_other, tf_self, MaxTicks)

\* --------------------------------------------------- input_cloud_received
\* The range gate of input_cloud_received on a sensor-frame point: the
\* point is skipped if norm() < 1 or norm() > 25, comparisons that are both
\* false for a norm that is NaN.
InRange(src) ==
    LET norm == FNorm(src)
    IN ~(FLess(norm, range_min) \/ FGreater(norm, range_max))

\* The robot filter: src is removed if it is closer than 1 m to a teammate.
NearRobot(src, robots) ==
    \E i \in DOMAIN robots : FLess(FNorm(FSub(src, robots[i])), robot_radius)

\* The filter loop of input_cloud_received from point i on: the points it
\* keeps, transformed into the map frame, in their order.
RECURSIVE KeptFrom(_, _, _, _)
KeptFrom(pts, i, translation, robots) ==
    IF i > Len(pts) THEN <<>>
    ELSE IF InRange(pts[i]) /\ ~NearRobot(pts[i], robots)
         THEN <<FAdd(pts[i], translation)>> \o KeptFrom(pts, i + 1, translation, robots)
         ELSE KeptFrom(pts, i + 1, translation, robots)
KeptPoints(pts, translation, robots) == KeptFrom(pts, 1, translation, robots)

\* Variant: the handler that merges whatever the filters keep.
InputCloudReceived_NoMinimum(msg, shape, n, tf, tf_robot, subs) ==
    /\ call = "none"
    /\ call' = "cloud"
    /\ IF ~initialized
       THEN /\ ingest' = Ingest("NotInitialized", <<>>, <<>>, {})
            /\ cloud' = cloud
       ELSE IF ~tf.ok
       THEN /\ ingest' = Ingest("TransformUnavailable", <<>>, <<>>, {})
            /\ cloud' = cloud
       ELSE LET robots == IF filter_robots THEN find_robots(tf_robot) ELSE <<>>
                points == KeptPoints(MakeCloud(shape, n), tf.translation, robots)
            IN IF ~msg.has_position
               THEN /\ ingest' = Ingest("FieldMissing", robots, <<>>, {})
                    /\ cloud' = cloud
               ELSE LET merged == merge(cloud, points, 1)
                    IN /\ ingest' = Ingest("merged", robots, points,
                                           {"map_dirty"} \cup subs)
                       /\ cloud' = update_dirty(merged, DirtyAfter(cloud, merged))
    /\ UNCHANGED <<filter_robots, engine, threads, initialized, time_initialized, last_request,
                   viewpoints, other_viewpoints, now, res, last_plan, path_pub>>

\* Planner::input_cloud_received for the cloud msg of n points cycling
\* through shape, with the transform source answering tf for the cloud's
\* frame and tf_robot for the teammate, and subs the topics subscribed to.
\* The handler reads of msg only the position field, whose absence makes
\* the PointCloud2 iterator throw.
InputCloudReceived(msg, shape, n, tf, tf_robot, subs) ==
    /\ call = "none"
    /\ call' = "cloud"
    /\ IF ~initialized
       THEN \* check_initialized throws NotInitialized
            /\ ingest' = Ingest("NotInitialized", <<>>, <<>>, {})
            /\ cloud' = cloud
       ELSE IF ~tf.ok
       THEN /\ ingest' = Ingest("TransformUnavailable", <<>>, <<>>, {})
            /\ cloud' = cloud
       ELSE LET robots == IF filter_robots THEN find_robots(tf_robot) ELSE <<>>
                points == KeptPoints(MakeCloud(shape, n), tf.translation, robots)
            IN IF ~msg.has_position
               THEN /\ ingest' = Ingest("FieldMissing", robots, <<>>, {})
                    /\ cloud' = cloud
               ELSE IF Len(points) < min_pts
               THEN /\ ingest' = Ingest("discarded", robots, <<>>, {})
                    /\ cloud' = cloud
               ELSE LET merged == merge(cloud, points, 1)
                    IN /\ ingest' = Ingest("merged", robots, points,
                                           {"map_dirty"} \cup subs)
                       /\ cloud' = update_dirty(merged, DirtyAfter(cloud, merged))
    /\ UNCHANGED <<filter_robots, engine, threads, initialized, time_initialized, last_request,
                   viewpoints, other_viewpoints, now, res, last_plan, path_pub>>

\* Planner::cloud_received, the handler of the input_map topic: it checks
\* the cloud and looks the robot up in the cloud's frame, and does nothing
\* with either.
CloudChecked(msg) ==
    /\ msg.row_step_ok
    /\ ~(msg.age > max_cloud_age_)
    /\ msg.frame = "map"
    /\ msg.has_position
    /\ msg.has_normal
CloudReceived(msg, tf) ==
    /\ call = "none"
    /\ call' = "map"
    /\ ingest' = Ingest(IF ~CloudChecked(msg) THEN "skipped"
                        ELSE IF ~tf.ok THEN "TransformUnavailable" ELSE "ignored",
                        <<>>, <<>>, {})
    /\ UNCHANGED <<filter_robots, engine, threads, initialized, time_initialized, last_request,
                   cloud, viewpoints, other_viewpoints, now, res, last_plan, path_pub>>

\* ------------------------------------------------------ the specification
Next ==
    \/ \E tf_robot \in OtherTfs : Startup(tf_robot)
    \/ Return
    \/ \E req \in Requests : PlanService(req)
    \/ PlanningTimerCb
    \/ \E tf_other \in OtherTfs, tf_self \in SelfTfs : GatherViewpoints(tf_other, tf_self)
    \/ \E shape \in CloudShapes, n \in CloudSizes, tf \in CloudTfs :
          InputCloudReceived(ValidCloud, shape, n, tf, TfFail, {})

Spec == Init /\ [][Next]_vars

\* The planner over the grid world: the same handlers, fed grid clouds and
\* directed requests from the grid's center to one of its corners, with a
\* tolerance that reaches the center only and with none, and from the
\* robot's base above the center.
GridRequests ==
    {Request(GridCenter, GridCorner, 30), Request(GridCenter, GridCorner, 0),
     Request(GridAbove, GridCorner, 0)}

GridNext ==
    \/ \E tf_robot \in OtherTfs : Startup(tf_robot)
    \/ Return
    \/ \E req \in GridRequests : PlanService(req)
    \/ PlanningTimerCb
    \/ \E tf_other \in OtherTfs, tf_self \in SelfTfs : GatherViewpoints(tf_other, tf_self)
    \/ \E n \in CloudSizes, tf \in CloudTfs : InputCloudReceived(ValidCloud, Grid3x3, n, tf, TfFail, {})

GridSpec == Init /\ [][GridNext]_vars

\* The planner while its viewpoint ledger is followed over several ticks: no
\* plan service call arrives; the timers run and the cloud subscription
\* receives clouds of the chain.
LedgerSelfTfs == {TfFail} \cup {TfOk(p) : p \in LedgerSelfPoses}
LedgerOtherTfs == {TfFail} \cup {TfOk(p) : p \in LedgerOtherPoses}

LedgerNext ==
    \/ \E tf_robot \in OtherTfs : Startup(tf_robot)
    \/ Return
    \/ PlanningTimerCb
    \/ \E tf_other \in LedgerOtherTfs, tf_self \in LedgerSelfTfs :
          GatherTick(tf_other, tf_self, LedgerTicks)
    \/ \E n \in CloudSizes, tf \in CloudTfs : InputCloudReceived(ValidCloud, ChainA, n, tf, TfFail, {})

LedgerSpec == Init /\ [][LedgerNext]_vars

\* ================================================================ claims
\* A plan call (service or timer) is ending.
PlanEnding == call \in {"service", "timer"}
\* The plan call that is ending got as far as choosing a start vertex.
PlanStarted == PlanEnding /\ last_plan.v_start # INVALID_VERTEX
Directed == valid_point(last_plan.req.goal.position)

\* A plan call made while not initialized, by the service or the timer.
PlanWhileUninitialized ==
    /\ ~initialized /\ call = "none"
    /\ call' \in {"service", "timer"}

\* C1: a plan request, from the service or the timer, that arrives before the
\* planner is initialized returns false with no poses, publishes nothing and
\* leaves the stored last request and every map point as they were.
C1_RejectedBeforeInitialized ==
    [][PlanWhileUninitialized =>
          /\ res'.ret = FALSE /\ res'.poses = <<>> /\ path_pub' = <<>>
          /\ last_plan'.err = "NotInitialized"
          /\ last_request' = last_request
          /\ cloud' = cloud]_vars

\* C1 witness: a rejected call whose request differs from the stored one.
C1_Witness ==
    /\ PlanEnding /\ last_plan.err = "NotInitialized"
    /\ last_plan.req # last_request

\* Squared Euclidean distance of vertex v to the requested goal position.
GoalSqDist(v) == SqNorm(VSub(cloud[v].position, last_plan.req.goal.position))

\* C2: a successful directed plan chooses a goal vertex of finite path cost to
\* which no other finite-cost vertex is strictly closer to the requested
\* goal position, and the returned path ends at that vertex.
C2_DirectedGoalClosestReachable ==
    (PlanEnding /\ res.ret /\ Directed) =>
        /\ last_plan.v_goal \in DOMAIN cloud
        /\ IsFinite(last_plan.path_costs[last_plan.v_goal])
        /\ \A v \in DOMAIN cloud :
              IsFinite(last_plan.path_costs[v]) => GoalSqDist(v) >= GoalSqDist(last_plan.v_goal)
        /\ last_plan.path_indices[Len(last_plan.path_indices)] = last_plan.v_goal
        /\ res.poses[Len(res.poses)].position = cloud[last_plan.v_goal].position

\* C2 witness: a directed plan whose goal is not the start vertex, with a
\* reachable vertex further from the goal position than the chosen one.
C2_Witness ==
    /\ PlanEnding /\ res.ret /\ Directed
    /\ last_plan.v_goal # last_plan.v_start
    /\ \E v \in DOMAIN cloud :
          /\ IsFinite(last_plan.path_costs[v])
          /\ GoalSqDist(v) > GoalSqDist(last_plan.v_goal)

\* The requested goal position is a map point that the start vertex has no
\* path to: start and goal lie in clusters with no edge between them.
GoalInOtherCluster ==
    /\ PlanStarted /\ Directed
    /\ \E g \in DOMAIN cloud :
          /\ cloud[g].position = last_plan.req.goal.position
          /\ IsTraversable(cloud, g)
          /\ ~IsFinite(last_plan.path_costs[g])

\* C3 as claimed: with the start in one cluster and the directed goal in
\* another, plan fails with NoPath and returns no path.
C3_Original_NoPathAcrossClusters ==
    GoalInOtherCluster => (res.ret = FALSE /\ last_plan.err = "NoPath" /\ res.poses = <<>>)

\* C3 as amended: a directed plan that found a start vertex never fails with
\* NoPath; with the goal in another cluster it succeeds, and its path ends
\* at the vertex of the start's cluster (finite path cost) closest to the
\* goal position.
C3_DirectedNeverNoPath ==
    /\ PlanEnding => last_plan.err # "NoPath"
    /\ (PlanStarted /\ Directed) => res.ret = TRUE
    /\ GoalInOtherCluster =>
          /\ res.ret = TRUE
          /\ IsFinite(last_plan.path_costs[last_plan.v_goal])
          /\ cloud[last_plan.v_goal].position # last_plan.req.goal.position
          /\ res.poses[Len(res.poses)].position = cloud[last_plan.v_goal].position
          /\ \A v \in DOMAIN cloud :
                IsFinite(last_plan.path_costs[v]) => GoalSqDist(last_plan.v_goal) <= GoalSqDist(v)

\* C3 witness: a directed plan with the goal position in another cluster.
C3_Witness == GoalInOtherCluster

\* Vertex v is eligible as exploration goal.
Eligible(v) == FGreater(cloud[v].reward, 0) /\ FGreater(cloud[v].path_cost, path_cost_floor)

\* C4: a successful exploration plan chooses an eligible goal vertex (positive
\* reward, path cost above the floor, hence neither the start vertex nor an
\* unreachable vertex) of minimum relative cost among the eligible vertices.
C4_ExploreGoalEligibleMinimal ==
    (PlanEnding /\ res.ret /\ ~Directed) =>
        /\ last_plan.v_goal \in DOMAIN cloud
        /\ Eligible(last_plan.v_goal)
        /\ last_plan.v_goal # last_plan.v_start
        /\ IsFinite(last_plan.path_costs[last_plan.v_goal])
        /\ \A v \in DOMAIN cloud :
              Eligible(v) => ~FLess(cloud[v].relative_cost,
                                    cloud[last_plan.v_goal].relative_cost)

\* C4 witness: an exploration plan with an eligible vertex of higher relative
\* cost than the chosen goal and unreachable vertices beside.
C4_Witness ==
    /\ PlanEnding /\ res.ret /\ ~Directed
    /\ \E v \in DOMAIN cloud :
          Eligible(v) /\ FLess(cloud[last_plan.v_goal].relative_cost, cloud[v].relative_cost)
    /\ \E v \in DOMAIN cloud : ~IsFinite(last_plan.path_costs[v])

\* C5: an exploration plan that finds no eligible vertex fails with NoGoal and
\* returns no poses.
C5_NoGoalWhenNoneEligible ==
    (PlanStarted /\ ~Directed /\ \A v \in DOMAIN cloud : ~Eligible(v)) =>
        (res.ret = FALSE /\ res.poses = <<>> /\ last_plan.err = "NoGoal"
         /\ last_plan.v_goal = INVALID_VERTEX)

\* C5 witness: an exploration plan ending in NoGoal on a map that has
\* reachable vertices beside the start vertex.
C5_Witness ==
    /\ PlanStarted /\ ~Directed /\ last_plan.err = "NoGoal"
    /\ \E v \in DOMAIN cloud : v # last_plan.v_start /\ IsFinite(last_plan.path_costs[v])

\* The staging-area factor as specified: 1 outside the box x in [-60, 0],
\* y in [-30, 30], z in [-30, 30] (metres), 1 / (1 + |pos|^4) inside it.
InStagingBox(pos) ==
    /\ pos[1] >= -600 /\ pos[1] <= 0
    /\ pos[2] >= -300 /\ pos[2] <= 300
    /\ pos[3] >= -300 /\ pos[3] <= 300

\* The reward as claimed: the teammates' term is taken from
\* dist_to_other_actors.
ClaimedReward(pt) ==
    LET r_self == distance_reward(pt.dist_to_actor)
        r_other == distance_reward(pt.dist_to_other_actors)
        base == FMax(FMin(r_self, r_other), (self_factor_pct * r_self) \div 100)
        edged == base * (1 + pt.num_edge_neighbors)
    IN IF InStagingBox(pt.position)
       THEN (edged * 100) \div StagingDivisor(pt.position)
       ELSE edged

\* C6 as claimed: after an exploration plan has scored the map, the reward of
\* every vertex is max(min(r_self, r_other), self_factor * r_self) *
\* (1 + num_edge_neighbors) * region_penalty with r_other computed from the
\* vertex's dist_to_other_actors.
C6_Original_RewardFromOtherDistance ==
    (PlanStarted /\ ~Directed) =>
        \A v \in DOMAIN cloud : cloud[v].reward = ClaimedReward(cloud[v])

\* The visit distances stored in the map.
VisitDistances ==
    {cloud[v].dist_to_actor : v \in DOMAIN cloud}
        \cup {cloud[v].dist_to_other_actors : v \in DOMAIN cloud}

\* min_vp_distance_ / max_vp_distance_ and 1, in millionths.
MinTerm == (min_vp_distance_ * 1000000) \div max_vp_distance_
MaxTerm == (max_vp_distance_ * 1000000) \div max_vp_distance_

\* C7 as claimed: the reward term of every visit distance lies in
\* [min_vp_distance / max_vp_distance, 1].
C7_Original_TermClipped ==
    \A d \in VisitDistances :
        distance_reward(d) >= MinTerm /\ distance_reward(d) <= MaxTerm

\* C7 as amended: the reward term of a visit distance d is 1 when d is not
\* finite, 0 when d is below min_vp_distance, and d / max_vp_distance
\* otherwise; for the distances the map stores it is 0 or lies in
\* [min_vp_distance / max_vp_distance, 1].
C7_TermZeroBelowMin ==
    \A d \in VisitDistances :
        /\ ~IsFinite(d) => distance_reward(d) = MaxTerm
        /\ (IsFinite(d) /\ d < min_vp_distance_) => distance_reward(d) = 0
        /\ (IsFinite(d) /\ d >= min_vp_distance_) =>
              /\ distance_reward(d) = (d * 1000000) \div max_vp_distance_
              /\ distance_reward(d) >= MinTerm
        /\ distance_reward(d) <= MaxTerm

\* C7 witness: the map stores a visit distance below min_vp_distance, one
\* above it and a never-seen one.
C7_Witness ==
    /\ \E d \in VisitDistances : IsFinite(d) /\ d < min_vp_distance_
    /\ \E d \in VisitDistances : IsFinite(d) /\ d > min_vp_distance_
    /\ \E d \in VisitDistances : ~IsFinite(d)

\* The plan call that is ending got as far as the start query.
PlanQueried ==
    PlanEnding /\ last_plan.err \notin {"NotInitialized", "TransformUnavailable", "MapTooSmall"}

\* The traversable points within radius r of the resolved start position.
TraversableNear(r) ==
    {v \in DOMAIN cloud :
        IsTraversable(cloud, v) /\ WithinRadius(cloud[v].position, last_plan.start.position, r)}

\* C8: the start vertex of a successful plan is TRAVERSABLE and lies within
\* the start search radius of the resolved start position; a plan that finds
\* no TRAVERSABLE point within that radius fails with NoStart and no poses.
C8_StartTraversableOrNoStart ==
    /\ (PlanEnding /\ res.ret) => last_plan.v_start \in TraversableNear(last_plan.start_tol)
    /\ (PlanQueried /\ TraversableNear(last_plan.start_tol) = {}) =>
          (res.ret = FALSE /\ res.poses = <<>> /\ last_plan.err = "NoStart")

\* C8 witness: a plan that failed with NoStart on a map with traversable
\* points, all outside the search radius.
C8_Witness ==
    /\ PlanQueried /\ last_plan.err = "NoStart"
    /\ \E v \in DOMAIN cloud : IsTraversable(cloud, v)

\* The hits of the start query of the plan call that is ending, as a set.
HitSet == {last_plan.hits[i] : i \in DOMAIN last_plan.hits}
PointsNear(r) ==
    {v \in DOMAIN cloud : WithinRadius(cloud[v].position, last_plan.start.position, r)}

\* C9 as claimed: the start search radius is max(tolerance,
\* neighborhood_radius) for every request tolerance.
C9_Original_RadiusIsMax ==
    PlanQueried =>
        last_plan.start_tol = IF last_plan.req.tolerance > neighborhood_radius_
                              THEN last_plan.req.tolerance ELSE neighborhood_radius_

\* C9 as amended: the start search radius is the request's tolerance when
\* that is positive and neighborhood_radius otherwise; a positive tolerance
\* below neighborhood_radius searches only that tolerance.
C9_RadiusIsPositiveTolerance ==
    PlanQueried =>
        /\ last_plan.req.tolerance > 0 =>
              /\ last_plan.start_tol = last_plan.req.tolerance
              /\ HitSet = PointsNear(last_plan.req.tolerance)
        /\ last_plan.req.tolerance <= 0 =>
              /\ last_plan.start_tol = neighborhood_radius_
              /\ HitSet = PointsNear(neighborhood_radius_)

\* C9 witness: a request with a positive tolerance below neighborhood_radius
\* and a map point between the two radii, which the query does not return.
C9_Witness ==
    /\ PlanQueried
    /\ last_plan.req.tolerance > 0 /\ last_plan.req.tolerance < neighborhood_radius_
    /\ PointsNear(neighborhood_radius_) \ HitSet # {}

\* C10 as claimed: with random_start off, the start vertex is the traversable
\* candidate closest to the resolved start position, whatever the order of
\* the query's hits.
C10_Original_StartIsClosest ==
    (PlanStarted /\ ~random_start_) =>
        \A v \in TraversableNear(last_plan.start_tol) :
            SqNorm(VSub(cloud[last_plan.v_start].position, last_plan.start.position))
                <= SqNorm(VSub(cloud[v].position, last_plan.start.position))

\* A plan call made while initialized, by the service or the timer.
PlanWhileInitialized ==
    /\ initialized /\ call = "none"
    /\ call' \in {"service", "timer"}

\* C11: a plan whose request has a non-finite start position and whose
\* self-pose lookup fails returns false with no poses and leaves every map
\* point as it was, and such a plan goes on only with a looked-up pose; a
\* plan whose request has a finite start position never fails on the
\* transform source (which would fail if asked) and uses the request's start
\* as given.
C11_StartResolution ==
    [][PlanWhileInitialized =>
          /\ last_plan'.err = "TransformUnavailable" =>
                /\ ~valid_point(last_plan'.req.start.position)
                /\ res'.ret = FALSE /\ res'.poses = <<>>
                /\ cloud' = cloud
          /\ (~valid_point(last_plan'.req.start.position)
                /\ last_plan'.err # "TransformUnavailable") =>
                /\ last_plan'.start.position \in SelfPoses
                /\ last_plan'.start.orientation = TfFrame
          /\ valid_point(last_plan'.req.start.position) =>
                /\ last_plan'.err # "TransformUnavailable"
                /\ last_plan'.start = last_plan'.req.start]_vars

\* C11 witness: a plan on a map with points that failed on the self-pose
\* lookup.
C11_Witness ==
    /\ PlanEnding /\ last_plan.err = "TransformUnavailable"
    /\ ~valid_point(last_plan.req.start.position)
    /\ Len(cloud) >= K_NEIGHBORS

\* A plan call on a map below K_NEIGHBORS points is ending, made while
\* initialized (a failed plan leaves the map as it was).
PlanOnSmallMap == PlanEnding /\ initialized /\ Len(cloud) < K_NEIGHBORS

\* C12 as claimed: an initialized plan on a map below K_NEIGHBORS points
\* fails with MapTooSmall and no path, whatever the request and the
\* transform source's answer.
C12_Original_AlwaysMapTooSmall ==
    PlanOnSmallMap =>
        (res.ret = FALSE /\ res.poses = <<>> /\ last_plan.err = "MapTooSmall")

\* C12 as amended: an initialized plan on a map below K_NEIGHBORS points
\* fails with no path and chooses no start vertex; the failure is MapTooSmall
\* when the request's start is finite or the self pose was looked up, and the
\* transform failure only for a non-finite start.
C12_SmallMapFails ==
    PlanOnSmallMap =>
        /\ res.ret = FALSE /\ res.poses = <<>>
        /\ last_plan.v_start = INVALID_VERTEX
        /\ last_plan.err \in {"MapTooSmall", "TransformUnavailable"}
        /\ valid_point(last_plan.req.start.position) => last_plan.err = "MapTooSmall"
        /\ valid_point(last_plan.start.position) => last_plan.err = "MapTooSmall"

\* C12 witness: a plan from the looked-up self pose on a non-empty map below
\* K_NEIGHBORS points that failed with MapTooSmall.
C12_Witness ==
    /\ PlanOnSmallMap /\ cloud # <<>>
    /\ ~valid_point(last_plan.req.start.position)
    /\ last_plan.err = "MapTooSmall"

\* C13: the reply of a successful plan starts with the resolved start pose,
\* orientation included (the request's start if finite, else the looked-up
\* self pose), followed by one pose per vertex of the traced path, at that
\* vertex's position, from the start vertex to the goal vertex.
C13_ReplyIsStartThenPath ==
    (PlanEnding /\ res.ret) =>
        /\ res.poses[1] = last_plan.start
        /\ valid_point(last_plan.req.start.position) => res.poses[1] = last_plan.req.start
        /\ ~valid_point(last_plan.req.start.position) =>
              /\ res.poses[1].position \in SelfPoses
              /\ res.poses[1].orientation = TfFrame
        /\ Len(res.poses) = 1 + Len(last_plan.path_indices)
        /\ last_plan.path_indices[1] = last_plan.v_start
        /\ last_plan.path_indices[Len(last_plan.path_indices)] = last_plan.v_goal
        /\ \A i \in DOMAIN last_plan.path_indices :
              res.poses[i + 1].position = cloud[last_plan.path_indices[i]].position

\* C13 witness: a successful plan from the looked-up self pose whose path
\* has at least three vertices.
C13_Witness ==
    /\ PlanEnding /\ res.ret
    /\ ~valid_point(last_plan.req.start.position)
    /\ Len(last_plan.path_indices) >= 3

\* C14 as stated: on the 3x3 grid a directed plan from the center to a
\* corner replies with exactly three poses, each one closer to the goal than
\* the one before it.
GridPlanDone ==
    /\ PlanEnding /\ res.ret
    /\ Len(cloud) = Len(Grid3x3)
    /\ last_plan.req.start.position = GridCenter
    /\ last_plan.req.goal.position = GridCorner
PoseGoalSqDist(i) == SqNorm(VSub(res.poses[i].position, GridCorner))
SearchDone == PlanEnding /\ last_plan.path_costs # <<>>
\* Whether following predecessor links from v arrives at the start vertex
\* within n steps.
RECURSIVE LeadsToStart(_, _)
LeadsToStart(v, n) ==
    \/ v = last_plan.v_start
    \/ /\ n > 0
       /\ last_plan.predecessor[v] # v
       /\ LeadsToStart(last_plan.predecessor[v], n - 1)
\* The vertices the graph joins to the start vertex, found by closure from S.
RECURSIVE ReachableFrom(_)
ReachableFrom(S) ==
    LET T == S \cup UNION {out_edges(cloud, v) : v \in S}
    IN IF T = S THEN S ELSE ReachableFrom(T)

\* C15: after the search the start vertex has cost 0 and is its own
\* predecessor; every other vertex of finite cost has a predecessor of finite
\* cost joined to it by an edge, and its cost is the predecessor's plus the
\* edge's; the predecessor links of finite-cost vertices lead to the start;
\* every vertex the graph does not join to the start keeps cost +infinity.
C15_ShortestPathTree ==
    SearchDone =>
        LET pc == last_plan.path_costs
            pred == last_plan.predecessor
            s == last_plan.v_start
            reach == ReachableFrom({s})
        IN /\ DOMAIN pc = DOMAIN cloud /\ DOMAIN pred = DOMAIN cloud
           /\ pc[s] = 0 /\ pred[s] = s
           /\ \A v \in DOMAIN cloud \ {s} :
                 /\ IsFinite(pc[v]) =>
                       /\ v \in out_edges(cloud, pred[v])
                       /\ IsFinite(pc[pred[v]])
                       /\ pc[v] = pc[pred[v]] + edge_cost(cloud, pred[v], v)
                       /\ LeadsToStart(v, Len(cloud))
                 /\ IsFinite(pc[v]) <=> v \in reach
                 /\ ~IsFinite(pc[v]) => (pc[v] = Inf /\ pred[v] = v)
C15_Witness ==
    /\ SearchDone
    /\ \E v \in DOMAIN cloud :
          /\ IsFinite(last_plan.path_costs[v])
          /\ last_plan.predecessor[v] \notin {v, last_plan.v_start}
    /\ \E v \in DOMAIN cloud :
          IsTraversable(cloud, v) /\ last_plan.path_costs[v] = Inf

\* The trace of vertex v after the last search, and what makes a sequence a
\* path of the predecessor tree from the start vertex to v.
TracedPath(v) == trace_path_indices(last_plan.v_start, v, last_plan.predecessor)
IsTreePath(p, v) ==
    /\ Len(p) >= 1 /\ Len(p) <= Len(cloud)
    /\ \A i, j \in DOMAIN p : i # j => p[i] # p[j]
    /\ p[1] = last_plan.v_start
    /\ p[Len(p)] = v
    /\ \A i \in 1..(Len(p) - 1) : last_plan.predecessor[p[i + 1]] = p[i]
\* C16: for every vertex plan can select as goal (one of finite path cost),
\* trace_path_indices ends within |V| steps and gives a sequence without
\* repeated vertices that starts at the start vertex, ends at the goal and in
\* which every vertex is the predecessor of the next; the path of a
\* successful plan is the trace of its goal.
C16_TraceIsTreePath ==
    SearchDone =>
        /\ \A v \in DOMAIN cloud :
              IsFinite(last_plan.path_costs[v]) => IsTreePath(TracedPath(v), v)
        /\ res.ret =>
              /\ IsFinite(last_plan.path_costs[last_plan.v_goal])
              /\ last_plan.path_indices = TracedPath(last_plan.v_goal)
C16_Witness ==
    /\ SearchDone /\ res.ret
    /\ Len(last_plan.path_indices) >= 3
    /\ last_plan.path_indices = TracedPath(last_plan.v_goal)

\* The path cost the plan that is ending computed for vertex v, as the
\* scoring loop stores it.
PlanPathCost(v) ==
    IF IsFinite(last_plan.path_costs[v]) THEN last_plan.path_costs[v] ELSE NaN
\* C17 as stated: after a successful plan, directed or exploration, every
\* point holds the path cost, reward and relative cost of that plan.
C17_Original_EveryPlanResets ==
    (PlanEnding /\ res.ret) =>
        \A v \in DOMAIN cloud :
            /\ cloud[v].path_cost = PlanPathCost(v)
            /\ cloud[v].reward = PointReward(cloud[v])
            /\ cloud[v].relative_cost = RelativeCost(PlanPathCost(v), PointReward(cloud[v]))

\* C17, amended: a plan call that ran the search for an exploration request
\* sets path_cost, reward and relative_cost of every point to its own values,
\* whether it then finds a goal or not; every other plan call, a successful
\* directed one included, leaves every point as it was.
C17_OnlyExplorationResets ==
    [][(call = "none" /\ call' \in {"service", "timer"}) =>
          IF last_plan'.path_costs # <<>> /\ ~valid_point(last_plan'.req.goal.position)
          THEN /\ DOMAIN cloud' = DOMAIN cloud
               /\ \A v \in DOMAIN cloud :
                     LET pc == IF IsFinite(last_plan'.path_costs[v])
                               THEN last_plan'.path_costs[v] ELSE NaN
                         rw == PointReward(cloud[v])
                     IN cloud'[v] = [cloud[v] EXCEPT !.path_cost = pc, !.reward = rw,
                                        !.relative_cost = RelativeCost(pc, rw)]
          ELSE cloud' = cloud]_vars
\* A successful directed plan returns while a point still holds the finite
\* path cost of an earlier plan, different from this plan's.
C17_Witness ==
    /\ PlanEnding /\ res.ret /\ Directed
    /\ \E v \in DOMAIN cloud :
          /\ IsFinite(cloud[v].path_cost)
          /\ cloud[v].path_cost # PlanPathCost(v)

\* Whether a frame whose x column is still to be normalised becomes a proper
\* rotation: x is not the zero vector, z is a unit vector orthogonal to x,
\* and y = z cross x (so that the axes are right-handed).
IsProperRotation(f) ==
    /\ SqNorm(f.x) > 0
    /\ SqNorm(f.z) = 1
    /\ Dot(f.x, f.z) = 0
    /\ f.y = Cross(f.z, f.x)
    /\ Dot(Cross(f.x, f.y), f.z) > 0
\* The normal of the map point that pose i of the reply stands on.
PoseNormal(i) == cloud[last_plan.path_indices[i - 1]].normal
\* C18 as stated: every pose after the first of a returned path has x along
\* the tangent from the previous pose, z the point's normal turned so that
\* z . (0,0,1) >= 0 and y = z cross x, and its frame is a proper rotation.
C18_Original_FrameIsRotation ==
    (PlanEnding /\ res.ret) =>
        \A i \in 2..Len(res.poses) :
            LET f == res.poses[i].orientation
            IN /\ f.x = VSub(res.poses[i].position, res.poses[i - 1].position)
               /\ f.z \in {PoseNormal(i), VNeg(PoseNormal(i))}
               /\ Dot(f.z, <<0, 0, 1>>) >= 0
               /\ f.y = Cross(f.z, f.x)
               /\ IsProperRotation(f)

\* A step is a viewpoint tick.
IsTick == now' = now + 1
\* What a tick does to one visit record (dist, last) of a point at position
\* pos, given the log of that actor's poses before and after the tick and
\* the time t it stamps: a new pose within max_vp_distance_ lowers the
\* distance to the smaller of the stored one and the new one (the new one if
\* none was stored) and stamps t; otherwise the record stays.
VisitUpdated(pos, dist, last, dist_after, last_after, log, log_after, t) ==
    IF /\ Len(log_after) = Len(log) + 1
       /\ WithinRadius(pos, log_after[Len(log_after)], max_vp_distance_)
    THEN LET d == Norm(VSub(pos, log_after[Len(log_after)]))
         IN /\ dist_after = IF IsFinite(dist) /\ dist < d THEN dist ELSE d
            /\ last_after = t
    ELSE dist_after = dist /\ last_after = last
\* A tick that stamps t_self on the robot's visits and t_other on a
\* teammate's, and touches nothing but the visit records.
TickStamps(t_self, t_other) ==
    /\ DOMAIN cloud' = DOMAIN cloud
    /\ \A v \in DOMAIN cloud :
          /\ VisitUpdated(cloud[v].position,
                          cloud[v].dist_to_actor, cloud[v].actor_last_visit,
                          cloud'[v].dist_to_actor, cloud'[v].actor_last_visit,
                          viewpoints, viewpoints', t_self)
          /\ VisitUpdated(cloud[v].position,
                          cloud[v].dist_to_other_actors, cloud[v].other_actors_last_visit,
                          cloud'[v].dist_to_other_actors, cloud'[v].other_actors_last_visit,
                          other_viewpoints, other_viewpoints', t_other)
          /\ cloud'[v] = [cloud[v] EXCEPT
                             !.dist_to_actor = cloud'[v].dist_to_actor,
                             !.actor_last_visit = cloud'[v].actor_last_visit,
                             !.dist_to_other_actors = cloud'[v].dist_to_other_actors,
                             !.other_actors_last_visit = cloud'[v].other_actors_last_visit]
\* No step raises a finite visit distance or makes it non-finite.
VisitDistanceKept ==
    \A v \in DOMAIN cloud :
        /\ v \in DOMAIN cloud'
        /\ IsFinite(cloud[v].dist_to_actor) =>
              /\ IsFinite(cloud'[v].dist_to_actor)
              /\ cloud'[v].dist_to_actor <= cloud[v].dist_to_actor
        /\ IsFinite(cloud[v].dist_to_other_actors) =>
              /\ IsFinite(cloud'[v].dist_to_other_actors)
              /\ cloud'[v].dist_to_other_actors <= cloud[v].dist_to_other_actors

InRangeOfLog(pos, log) ==
    \E i \in DOMAIN log : WithinRadius(pos, log[i], max_vp_distance_)
\* C20 as stated: a point's visit distance is finite iff its visit time is
\* finite iff its position was within max_vp_distance_ of a pose sampled at
\* an earlier tick, for the robot and for teammates alike.
C20_Original_SeenIffEverInRange ==
    \A v \in DOMAIN cloud :
        /\ IsFinite(cloud[v].dist_to_actor) <=> IsFinite(cloud[v].actor_last_visit)
        /\ IsFinite(cloud[v].actor_last_visit)
              <=> InRangeOfLog(cloud[v].position, viewpoints)
        /\ IsFinite(cloud[v].dist_to_other_actors)
              <=> IsFinite(cloud[v].other_actors_last_visit)
        /\ IsFinite(cloud[v].other_actors_last_visit)
              <=> InRangeOfLog(cloud[v].position, other_viewpoints)

\* In every state a visit distance is finite exactly when the visit time is,
\* and then some sampled pose lies within max_vp_distance_ at no less than
\* the stored distance.
VisitFieldsAgree ==
    \A v \in DOMAIN cloud :
        /\ IsFinite(cloud[v].dist_to_actor) <=> IsFinite(cloud[v].actor_last_visit)
        /\ IsFinite(cloud[v].dist_to_other_actors)
              <=> IsFinite(cloud[v].other_actors_last_visit)
        /\ IsFinite(cloud[v].dist_to_actor) =>
              \E i \in DOMAIN viewpoints :
                  /\ WithinRadius(cloud[v].position, viewpoints[i], max_vp_distance_)
                  /\ cloud[v].dist_to_actor = Norm(VSub(cloud[v].position, viewpoints[i]))
        /\ IsFinite(cloud[v].dist_to_other_actors) =>
              \E i \in DOMAIN other_viewpoints :
                  /\ WithinRadius(cloud[v].position, other_viewpoints[i], max_vp_distance_)
                  /\ cloud[v].dist_to_other_actors
                        = Norm(VSub(cloud[v].position, other_viewpoints[i]))
\* How being visited changes in one step: a point of the map is visited
\* after the step iff it was visited before or the step is a tick that
\* samples a pose within max_vp_distance_ of it; a point the step adds to
\* the map is not visited.
VisitedStep(dist(_), log, log_after) ==
    /\ \A v \in DOMAIN cloud :
          /\ v \in DOMAIN cloud'
          /\ IsFinite(dist(cloud'[v])) <=>
                \/ IsFinite(dist(cloud[v]))
                \/ /\ Len(log_after) = Len(log) + 1
                   /\ WithinRadius(cloud[v].position, log_after[Len(log_after)],
                                   max_vp_distance_)
    /\ \A v \in DOMAIN cloud' \ DOMAIN cloud : ~IsFinite(dist(cloud'[v]))
    /\ Len(log_after) \in {Len(log), Len(log) + 1}
    /\ \A i \in DOMAIN log : log_after[i] = log[i]
SelfDist(pt) == pt.dist_to_actor
OtherDist(pt) == pt.dist_to_other_actors

\* C20, amended: in every reachable state and for every point, dist_to_actor
\* is finite iff actor_last_visit is finite, iff at some earlier tick the
\* point was in the map and within max_vp_distance_ of the self pose sampled
\* at that tick; a point merged into the map later is not visited by the
\* poses sampled before.  The same holds for dist_to_other_actors and
\* other_actors_last_visit with teammate poses.
C20_SeenIffInRangeAtATick ==
    /\ []VisitFieldsAgree
    /\ [][/\ VisitedStep(SelfDist, viewpoints, viewpoints')
          /\ VisitedStep(OtherDist, other_viewpoints, other_viewpoints')]_vars
\* The ledger holds a visited and an unvisited point for the robot and for a
\* teammate, and a point merged after a sampled pose that would have reached it.
C20_Witness ==
    /\ viewpoints # <<>> /\ other_viewpoints # <<>>
    /\ \E v, w \in DOMAIN cloud :
          /\ IsFinite(cloud[v].dist_to_actor) /\ IsFinite(cloud[v].actor_last_visit)
          /\ ~IsFinite(cloud[w].dist_to_actor) /\ ~IsFinite(cloud[w].actor_last_visit)
          /\ ~InRangeOfLog(cloud[w].position, viewpoints)
    /\ \E v, w \in DOMAIN cloud :
          /\ IsFinite(cloud[v].dist_to_other_actors)
          /\ ~IsFinite(cloud[w].dist_to_other_actors)
          /\ ~InRangeOfLog(cloud[w].position, other_viewpoints)

\* The visit record of actor who ("self" or "other") at the points of cl.
VisitRecords(cl, who) ==
    [v \in DOMAIN cl |->
        IF who = "self" THEN <<cl[v].dist_to_actor, cl[v].actor_last_visit>>
        ELSE <<cl[v].dist_to_other_actors, cl[v].other_actors_last_visit>>]
\* What a tick with the answers tf_other and tf_self does for each actor: an
\* actor whose lookup failed keeps its visit records and its log; an actor
\* whose lookup succeeded has its pose logged and every point in range of it
\* stamped, whatever the other lookup answered.
ActorSkipped(who, log, log_after) ==
    /\ log_after = log
    /\ VisitRecords(cloud', who) = VisitRecords(cloud, who)
ActorProcessed(who, tf, log, log_after, t) ==
    /\ log_after = Append(log, tf.translation)
    /\ \A v \in DOMAIN cloud :
          WithinRadius(cloud[v].position, tf.translation, max_vp_distance_) =>
              VisitRecords(cloud', who)[v][2] = t
\* A tick can run: no handler is in progress and the clock has not stopped.
TickEnabled ==
    ENABLED (\E tf_other \in LedgerOtherTfs, tf_self \in LedgerSelfTfs :
                GatherTick(tf_other, tf_self, LedgerTicks))

\* C21: a failed transform lookup for one actor at a tick is not fatal: that
\* actor's visit records and log stay as they were, every other actor is
\* still processed at that tick, and whenever no handler is in progress and
\* the clock has not stopped the next tick can run, whatever failed before.
C21_FailedLookupSkipsActor ==
    /\ [][\A tf_other \in LedgerOtherTfs, tf_self \in LedgerSelfTfs :
             GatherTick(tf_other, tf_self, LedgerTicks) =>
                 /\ DOMAIN cloud' = DOMAIN cloud
                 /\ IF tf_self.ok
                    THEN ActorProcessed("self", tf_self, viewpoints, viewpoints',
                                        time_from_init(now' - 1))
                    ELSE ActorSkipped("self", viewpoints, viewpoints')
                 /\ IF tf_other.ok
                    THEN ActorProcessed("other", tf_other, other_viewpoints,
                                        other_viewpoints', time_from_init(now' - 2))
                    ELSE ActorSkipped("other", other_viewpoints, other_viewpoints')]_vars
    /\ [](call = "none" /\ now < LedgerTicks => TickEnabled)

\* C21 happens: the teammate's lookup failed at the first tick, where the
\* robot's pose was logged and stamped, and succeeded at the second, whose
\* time is on the points in its range.
C21_Witness ==
    /\ now = 2
    /\ Len(viewpoints) = 2
    /\ Len(other_viewpoints) = 1
    /\ \E v \in DOMAIN cloud :
          /\ cloud[v].other_actors_last_visit = time_from_init(0)
          /\ cloud[v].actor_last_visit = time_from_init(1)

\* ------------------------------------------- the cloud handlers followed
\* The planner while its cloud handlers are followed: filter_robots_ as
\* configured, clouds with and without defects on both cloud topics, the
\* sensor placed off the map origin, a teammate in the sensor's view.
IngestTfs == {TfFail, TfOk(SensorOffset)}
TeammateTfs == {TfFail, TfOk(TeammateInSensor)}
IngestShapes == {GateShape, ChainA}
IngestSizes == {min_pts, GateSize}

IngestInit == Constructed /\ filter_robots \in BOOLEAN

IngestNext ==
    \/ \E tf_robot \in TeammateTfs : Startup(tf_robot)
    \/ Return
    \/ /\ Len(cloud) < MaxMapPoints
       /\ \E msg \in CloudMsgs, shape \in IngestShapes, n \in IngestSizes,
             tf \in IngestTfs, tf_robot \in TeammateTfs, subs \in SubscribedSets :
             InputCloudReceived(msg, shape, n, tf, tf_robot, subs)
    \/ \E msg \in CloudMsgs, tf \in IngestTfs : CloudReceived(msg, tf)

IngestSpec == IngestInit /\ [][IngestNext]_vars

\* A cloud the specification of ingestion rejects: too old, with a row
\* stride that does not match its width, without a transform into the map
\* frame, or without a position or a normal field.
RejectedCloud(msg, tf) ==
    \/ msg.age > max_cloud_age_
    \/ ~msg.row_step_ok
    \/ ~tf.ok
    \/ ~msg.has_position
    \/ ~msg.has_normal

\* C22 as stated: no cloud that is too old, has a bad row stride, has no
\* transform into the map frame or lacks a position or a normal field adds a
\* point to the map.
C22_Original_RejectedCloudAddsNothing ==
    [][\A msg \in CloudMsgs, shape \in IngestShapes, n \in IngestSizes, tf \in IngestTfs,
          tf_robot \in TeammateTfs, subs \in SubscribedSets :
          InputCloudReceived(msg, shape, n, tf, tf_robot, subs) /\ RejectedCloud(msg, tf)
              => Len(cloud') = Len(cloud)]_vars

\* The candidates the specification of ingestion allows for a cloud of
\* points pts: the points at 1 m to 25 m from the sensor and, if the robot
\* filter is on, 1 m or more from every teammate found, in their order,
\* moved into the map frame.
Admissible(p, robots) ==
    /\ FGeq(FNorm(p), range_min)
    /\ FGeq(range_max, FNorm(p))
    /\ filter_robots =>
          \A i \in DOMAIN robots : FGeq(FNorm(FSub(p, robots[i])), robot_radius)
AdmissiblePoints(pts, translation, robots) ==
    LET kept == SelectSeq(pts, LAMBDA p : Admissible(p, robots))
    IN [i \in DOMAIN kept |-> FAdd(kept[i], translation)]

\* C23 as stated: the candidates handed to merge are the points of the
\* cloud with 1 m <= |p| <= 25 m that, if filter_robots is on, are 1 m or
\* more from every teammate found (none being rejected for proximity if it
\* is off), in their original order, transformed into the map frame.
C23_Original_CandidatesAreInRange ==
    [][\A msg \in CloudMsgs, shape \in IngestShapes, n \in IngestSizes, tf \in IngestTfs,
          tf_robot \in TeammateTfs, subs \in SubscribedSets :
          InputCloudReceived(msg, shape, n, tf, tf_robot, subs)
              /\ ingest'.outcome = "merged"
              => ingest'.kept = AdmissiblePoints(MakeCloud(shape, n), tf.translation,
                                                 find_robots(tf_robot))]_vars

\* C25 as stated: no call of the cloud handler ends with an exception
\* leaving it.
C25_Original_NoErrorLeavesHandler == call = "cloud" => ingest.outcome \notin Thrown

\* The same behaviours under the scheduling of the threads: a handler that
\* has ended returns, and the constructor's thread is not starved:
\* find_robots waits a bounded time for each teammate, so the constructor
\* does not stay able to finish, between handler calls, forever without
\* finishing.
StartupSpec ==
    /\ IngestInit
    /\ [][IngestNext]_vars
    /\ WF_vars(Return)
    /\ SF_vars(\E tf_robot \in TeammateTfs : Startup(tf_robot))

\* C26: startup always reaches Initialized: while the flag is not set the
\* constructor can finish whichever teammates answer, finishing sets the
\* flag whichever teammates answered, the flag is eventually set, and once
\* set it is never cleared.
C26_StartupReachesInitialized ==
    /\ [](~initialized /\ call = "none" =>
             \A tf_robot \in TeammateTfs : ENABLED Startup(tf_robot))
    /\ [][\A tf_robot \in TeammateTfs : Startup(tf_robot) => initialized']_vars
    /\ <>initialized
    /\ [][initialized => initialized']_vars

\* C26 happens: the constructor has finished although no teammate answered
\* the discovery.
C26_Witness ==
    /\ call = "startup"
    /\ ingest.outcome = "discovered"
    /\ ingest.robots = <<>>
    /\ initialized

\* ----------------------------------------------- the callbacks, lock by lock
\* std::recursive_mutex: thread t can lock m if m is free or t owns it.
Free(m, t) == held[m].owner \in {"none", t}
\* Lock (std::lock_guard) constructed on m by t, and destroyed.
Locked(h, m, t) == [h EXCEPT ![m] = [owner |-> t, count |-> @.count + 1]]
Unlocked(h, m) ==
    [h EXCEPT ![m] = IF @.count <= 1 THEN Unowned ELSE [@ EXCEPT !.count = @ - 1]]
\* Thread t moves from statement from to statement to.
Goto(t, from, to) == at[t] = from /\ at' = [at EXCEPT ![t] = to]
\* Thread t constructs a Lock on m at statement from.
Acquire(t, m, from, to) ==
    /\ Goto(t, from, to)
    /\ Free(m, t)
    /\ held' = Locked(held, m, t)

Holds(t, m) == held[m].owner = t

\* What the handlers' calls leave for their callers is not followed here.
ghost == <<call, res, last_plan, path_pub, ingest>>

\* Variants: a plan that locks only its request, and handlers that lock the
\* index before the point store.
PlanOrder_NoMapLock == <<"last_request", "last_request">>
IngestOrder_IndexFirst == <<"index", "cloud", "dirty">>
SamplerOrder_IndexFirst == <<"index", "cloud">>

\* The order in which input_cloud_received, a viewpoint tick and plan lock
\* the mutexes of the map.
IngestOrder == <<"cloud", "index", "dirty">>
SamplerOrder == <<"cloud", "index">>
PlanOrder == <<"cloud", "index">>

\* The constructor's last statements: Lock lock(initialized_mutex_);
\* initialized_ = true; time_initialized_ = now.
MainFinish ==
    /\ Goto("main", "find_robots", "done")
    /\ Free("initialized", "main")
    /\ initialized' = TRUE
    /\ time_initialized' = now
    /\ UNCHANGED <<filter_robots, engine, held, locals, last_request, cloud, viewpoints,
                   other_viewpoints, now, ghost>>

\* update_params: the map's labelling parameters are read from the
\* parameter server and stored, under no mutex.
ParamsReload ==
    /\ \/ Goto("params", "idle", "update_params")
       \/ Goto("params", "update_params", "idle")
    /\ UNCHANGED <<filter_robots, engine, held, locals, initialized, time_initialized,
                   last_request, cloud, viewpoints, other_viewpoints, now, ghost>>

\* ---- input_cloud_received
\* Inputs of the cloud subscription while the locks are followed.
ThreadCloudSizes == {min_pts}

\* Variant: the lookup whose failure is ignored.
IngestLookup_IgnoreFailure(tf, n) ==
    /\ at["ingest"] = "idle"
    /\ Free("initialized", "ingest")
    /\ initialized
    /\ LET points == KeptPoints(MakeCloud(ChainA, n), Origin, <<>>)
       IN IF Len(points) < min_pts
          THEN UNCHANGED <<at, locals>>
          ELSE /\ at' = [at EXCEPT !["ingest"] = "lock_cloud"]
               /\ locals' = [locals EXCEPT !["ingest"].points = points]
    /\ UNCHANGED <<filter_robots, engine, held, initialized, time_initialized, last_request,
                   cloud, viewpoints, other_viewpoints, now, ghost>>

\* Variant: the lookup without check_initialized.
IngestLookup_NoInitCheck(tf, n) ==
    /\ at["ingest"] = "idle"
    /\ IF ~tf.ok
       THEN /\ at' = [at EXCEPT !["ingest"] = "catch"]
            /\ locals' = locals
       ELSE LET points == KeptPoints(MakeCloud(ChainA, n), tf.translation, <<>>)
            IN IF Len(points) < min_pts
               THEN UNCHANGED <<at, locals>>
               ELSE /\ at' = [at EXCEPT !["ingest"] = "lock_cloud"]
                    /\ locals' = [locals EXCEPT !["ingest"].points = points]
    /\ UNCHANGED <<filter_robots, engine, held, initialized, time_initialized, last_request,
                   cloud, viewpoints, other_viewpoints, now, ghost>>

\* A cloud of n points of the chain arrives: check_initialized under
\* initialized_mutex_ (before the flag is set it throws and the handler is
\* left with nothing changed), the transform lookup, answered tf, and the
\* point filter.  A failed lookup is caught; the handler returns if fewer
\* than min_pts points are kept, and goes on to lock the map otherwise.
IngestLookup(tf, n) ==
    /\ at["ingest"] = "idle"
    /\ Free("initialized", "ingest")
    /\ initialized
    /\ IF ~tf.ok
       THEN /\ at' = [at EXCEPT !["ingest"] = "catch"]
            /\ locals' = locals
       ELSE LET points == KeptPoints(MakeCloud(ChainA, n), tf.translation, <<>>)
            IN IF Len(points) < min_pts
               THEN UNCHANGED <<at, locals>>
               ELSE /\ at' = [at EXCEPT !["ingest"] = "lock_cloud"]
                    /\ locals' = [locals EXCEPT !["ingest"].points = points]
    /\ UNCHANGED <<filter_robots, engine, held, initialized, time_initialized, last_request,
                   cloud, viewpoints, other_viewpoints, now, ghost>>

\* The catch block of the lookup: ROS_ERROR and return.
IngestCatch ==
    /\ Goto("ingest", "catch", "idle")
    /\ UNCHANGED <<filter_robots, engine, held, locals, initialized, time_initialized,
                   last_request, cloud, viewpoints, other_viewpoints, now, ghost>>

\* Lock cloud_lock(map_.cloud_mutex_); Lock index_lock(map_.index_mutex_);
\* Lock lock_dirty(map_.dirty_mutex_), one statement a step.
IngestLock ==
    /\ \/ Acquire("ingest", IngestOrder[1], "lock_cloud", "lock_index")
       \/ Acquire("ingest", IngestOrder[2], "lock_index", "lock_dirty")
       \/ Acquire("ingest", IngestOrder[3], "lock_dirty", "merge")
    /\ UNCHANGED <<filter_robots, engine, locals, initialized, time_initialized, last_request,
                   cloud, viewpoints, other_viewpoints, now, ghost>>

\* map_.merge and map_.update_dirty.
IngestMerge ==
    /\ Goto("ingest", "merge", "lock_cloud_dirty")
    /\ LET merged == merge(cloud, locals["ingest"].points, 1)
       IN cloud' = update_dirty(merged, DirtyAfter(cloud, merged))
    /\ UNCHANGED <<filter_robots, engine, held, locals, initialized, time_initialized,
                   last_request, viewpoints, other_viewpoints, now, ghost>>

\* Lock lock_cloud(map_.cloud_mutex_) before the dirty cloud is created,
\* with cloud_mutex_ already held.
IngestRelock ==
    /\ Acquire("ingest", "cloud", "lock_cloud_dirty", "publish_dirty")
    /\ UNCHANGED <<filter_robots, engine, locals, initialized, time_initialized, last_request,
                   cloud, viewpoints, other_viewpoints, now, ghost>>

\* The dirty cloud is published and the dirty set cleared; the block ends,
\* and with no subscriber to local_map and map the handler: every Lock is
\* destroyed.
IngestPublish ==
    /\ Goto("ingest", "publish_dirty", "idle")
    /\ held' = [m \in Mutexes |-> IF Holds("ingest", m) THEN Unowned ELSE held[m]]
    /\ locals' = [locals EXCEPT !["ingest"] = NoLocals]
    /\ UNCHANGED <<filter_robots, engine, initialized, time_initialized, last_request,
                   cloud, viewpoints, other_viewpoints, now, ghost>>

\* ---- gather_viewpoints
\* The viewpoints timer stops ticking after this many ticks while the
\* locks are followed.
ThreadTicks == 1

\* A tick: Lock lock(viewpoints_mutex_), held until the handler returns;
\* the loop over robot_frames_ starts with the teammate.
SamplerTick ==
    /\ Acquire("sampler", "viewpoints", "idle", "lookupTransform")
    /\ now < ThreadTicks
    /\ now' = now + 1
    /\ locals' = [locals EXCEPT !["sampler"].actor = "other"]
    /\ UNCHANGED <<filter_robots, engine, initialized, time_initialized, last_request,
                   cloud, viewpoints, other_viewpoints, ghost>>

\* The statement after the work on the actor the loop is at.
AfterActor(actor) == IF actor = "other" THEN "lookupTransform" ELSE "publish"
NextActor(actor) == IF actor = "other" THEN "self" ELSE "none"

\* The lookup of the actor's pose, answered tf: a failure skips the actor.
SamplerLookup(tf) ==
    /\ at["sampler"] = "lookupTransform"
    /\ LET actor == locals["sampler"].actor
       IN IF tf.ok
          THEN /\ at' = [at EXCEPT !["sampler"] = "lock_cloud"]
               /\ locals' = [locals EXCEPT !["sampler"].points = <<tf.translation>>]
          ELSE /\ at' = [at EXCEPT !["sampler"] = AfterActor(actor)]
               /\ locals' = [locals EXCEPT !["sampler"].actor = NextActor(actor)]
    /\ UNCHANGED <<filter_robots, engine, held, initialized, time_initialized, last_request,
                   cloud, viewpoints, other_viewpoints, now, ghost>>

\* Lock cloud_lock(map_.cloud_mutex_); Lock index_lock(map_.index_mutex_).
SamplerLock ==
    /\ \/ Acquire("sampler", SamplerOrder[1], "lock_cloud", "lock_index")
       \/ Acquire("sampler", SamplerOrder[2], "lock_index", "nearby_indices")
    /\ UNCHANGED <<filter_robots, engine, locals, initialized, time_initialized, last_request,
                   cloud, viewpoints, other_viewpoints, now, ghost>>

\* Variant: the two map Locks of a tick live until the handler returns.
SamplerVisit_LocksAtFunctionScope ==
    /\ at["sampler"] = "nearby_indices"
    /\ LET actor == locals["sampler"].actor
           pos == locals["sampler"].points[1]
       IN /\ at' = [at EXCEPT !["sampler"] = AfterActor(actor)]
          /\ locals' = [locals EXCEPT !["sampler"].actor = NextActor(actor),
                                      !["sampler"].points = <<>>]
          /\ IF actor = "other"
             THEN /\ cloud' = VisitOther(cloud, pos, time_from_init(now - 2))
                  /\ other_viewpoints' = Append(other_viewpoints, pos)
                  /\ viewpoints' = viewpoints
             ELSE /\ cloud' = VisitSelf(cloud, pos, time_from_init(now - 1))
                  /\ viewpoints' = Append(viewpoints, pos)
                  /\ other_viewpoints' = other_viewpoints
    /\ held' = held
    /\ UNCHANGED <<filter_robots, engine, initialized, time_initialized, last_request, now, ghost>>

\* The radius query and the visit updates for the actor, the pose logged;
\* the try block ends and the two map Locks are destroyed.
SamplerVisit ==
    /\ at["sampler"] = "nearby_indices"
    /\ LET actor == locals["sampler"].actor
           pos == locals["sampler"].points[1]
       IN /\ at' = [at EXCEPT !["sampler"] = AfterActor(actor)]
          /\ locals' = [locals EXCEPT !["sampler"].actor = NextActor(actor),
                                      !["sampler"].points = <<>>]
          /\ IF actor = "other"
             THEN /\ cloud' = VisitOther(cloud, pos, time_from_init(now - 2))
                  /\ other_viewpoints' = Append(other_viewpoints, pos)
                  /\ viewpoints' = viewpoints
             ELSE /\ cloud' = VisitSelf(cloud, pos, time_from_init(now - 1))
                  /\ viewpoints' = Append(viewpoints, pos)
                  /\ other_viewpoints' = other_viewpoints
    /\ held' = Unlocked(Unlocked(held, "index"), "cloud")
    /\ UNCHANGED <<filter_robots, engine, initialized, time_initialized, last_request, now, ghost>>

\* The viewpoint clouds are published and the handler returns.
SamplerPublish ==
    /\ Goto("sampler", "publish", "idle")
    /\ held' = [m \in Mutexes |-> IF Holds("sampler", m) THEN Unowned ELSE held[m]]
    /\ locals' = [locals EXCEPT !["sampler"] = NoLocals]
    /\ UNCHANGED <<filter_robots, engine, initialized, time_initialized, last_request,
                   cloud, viewpoints, other_viewpoints, now, ghost>>

\* ---- plan, called by the planning timer and by the plan service
PlanThreads == {"timer", "rpc"}
\* The request the plan service is called with while the locks are followed:
\* an exploration request, as the stored one of the planning timer.
ThreadRequests == {Request(NaNVec, NaNVec, default_tolerance)}

\* planning_timer_cb: the stored request is copied under
\* last_request_mutex_ and plan is called with the copy.
TimerCopyRequest ==
    /\ Goto("timer", "idle", "plan")
    /\ Free("last_request", "timer")
    /\ locals' = [locals EXCEPT !["timer"].req = last_request]
    /\ UNCHANGED <<filter_robots, engine, held, initialized, time_initialized, last_request,
                   cloud, viewpoints, other_viewpoints, now, ghost>>

\* The head of plan for req in thread t, the transform source answering
\* tf: initialized_ is read under initialized_mutex_ (before the flag is
\* set plan returns false with nothing changed), req is stored under
\* last_request_mutex_ and the start pose resolved; plan returns false if
\* that fails and goes on to lock the map otherwise.
PlanEnter(t, req, tf) ==
    /\ Free("initialized", t)
    /\ initialized
    /\ Free("last_request", t)
    /\ last_request' = req
    /\ LET rs == ResolveStart(req, tf)
       IN IF rs.ok
          THEN /\ at' = [at EXCEPT ![t] = "lock_cloud"]
               /\ locals' = [locals EXCEPT ![t].req = req, ![t].start = rs.pose]
          ELSE /\ at' = [at EXCEPT ![t] = "idle"]
               /\ locals' = [locals EXCEPT ![t] = NoLocals]
    /\ UNCHANGED <<filter_robots, engine, held, initialized, time_initialized,
                   cloud, viewpoints, other_viewpoints, now, ghost>>

\* The plan service is called with req.
RpcCall(req, tf) == at["rpc"] = "idle" /\ PlanEnter("rpc", req, tf)

\* planning_timer_cb calls plan with its copy of the stored request.
TimerPlan(tf) == at["timer"] = "plan" /\ PlanEnter("timer", locals["timer"].req, tf)

\* Lock cloud_lock(map_.cloud_mutex_); Lock index_lock(map_.index_mutex_).
PlanLock(t) ==
    /\ \/ Acquire(t, PlanOrder[1], "lock_cloud", "lock_index")
       \/ Acquire(t, PlanOrder[2], "lock_index", "size_check")
    /\ UNCHANGED <<filter_robots, engine, locals, initialized, time_initialized, last_request,
                   cloud, viewpoints, other_viewpoints, now, ghost>>

\* The map size check: plan returns false on a map of fewer than
\* K_NEIGHBORS points.
PlanSizeCheck(t) ==
    /\ at[t] = "size_check"
    /\ IF Len(cloud) < K_NEIGHBORS
       THEN /\ at' = [at EXCEPT ![t] = "idle"]
            /\ held' = [m \in Mutexes |-> IF Holds(t, m) THEN Unowned ELSE held[m]]
            /\ locals' = [locals EXCEPT ![t] = NoLocals]
       ELSE /\ at' = [at EXCEPT ![t] = "lock_cloud_start"]
            /\ UNCHANGED <<held, locals>>
    /\ UNCHANGED <<filter_robots, engine, initialized, time_initialized, last_request,
                   cloud, viewpoints, other_viewpoints, now, ghost>>

\* Lock lock(map_.cloud_mutex_) of the start search, with cloud_mutex_
\* already held.
PlanRelock(t) ==
    /\ Acquire(t, "cloud", "lock_cloud_start", "nearby_indices")
    /\ UNCHANGED <<filter_robots, engine, locals, initialized, time_initialized, last_request,
                   cloud, viewpoints, other_viewpoints, now, ghost>>

\* What the radius query of thread t's start search returns: the hits by
\* distance (the other orders of the query are those of QueryOrders).
StartSearchResults(t) ==
    IF at[t] = "nearby_indices"
    THEN {SortedSeq(StartHits(cloud, locals[t].req, locals[t].start))}
    ELSE {}

\* The start search: the radius query returns hits; the block ends.
PlanStartSearch(t, hits) ==
    /\ Goto(t, "nearby_indices", "dijkstra")
    /\ hits \in StartSearchResults(t)
    /\ locals' = [locals EXCEPT ![t].points = hits]
    /\ held' = Unlocked(held, "cloud")
    /\ UNCHANGED <<filter_robots, engine, initialized, time_initialized, last_request,
                   cloud, viewpoints, other_viewpoints, now, ghost>>

\* The rest of plan from the hits of the start search: the shortest paths,
\* the goal and the path, with the planning results written to the points;
\* plan returns and its Locks are destroyed.
PlanSearch(t, rnd) ==
    /\ Goto(t, "dijkstra", "idle")
    /\ LET req == locals[t].req
           start == locals[t].start
           log == [NoPlan EXCEPT !.req = req, !.start = start]
       IN \E o \in {PlanLocked(req, start, cloud, log, locals[t].points, rnd)} :
             cloud' = o.cloud
    /\ held' = [m \in Mutexes |-> IF Holds(t, m) THEN Unowned ELSE held[m]]
    /\ locals' = [locals EXCEPT ![t] = NoLocals]
    /\ UNCHANGED <<filter_robots, engine, initialized, time_initialized, last_request,
                   viewpoints, other_viewpoints, now, ghost>>

\* ---- the threads together
ThreadNext ==
    \/ MainFinish
    \/ ParamsReload
    \/ \E tf \in CloudTfs, n \in ThreadCloudSizes : IngestLookup(tf, n)
    \/ IngestCatch
    \/ IngestLock
    \/ IngestMerge
    \/ IngestRelock
    \/ IngestPublish
    \/ SamplerTick
    \/ \E tf \in IF locals["sampler"].actor = "other" THEN OtherTfs ELSE SelfTfs :
          SamplerLookup(tf)
    \/ SamplerLock
    \/ SamplerVisit
    \/ SamplerPublish
    \/ TimerCopyRequest
    \/ \E tf \in PlanTfs(locals["timer"].req) : TimerPlan(tf)
    \/ \E req \in ThreadRequests : \E tf \in PlanTfs(req) : RpcCall(req, tf)
    \/ \E t \in PlanThreads :
          \/ PlanLock(t)
          \/ PlanSizeCheck(t)
          \/ PlanRelock(t)
          \/ \E hits \in StartSearchResults(t) : PlanStartSearch(t, hits)
          \/ \E rnd \in RandValues : PlanSearch(t, rnd)

ThreadSpec == Init /\ [][ThreadNext]_vars

\* A step in which thread t locks mutex m that it did not own.
FirstAcquires(t, m) == held[m].owner # t /\ held'[m].owner = t
\* A step in which thread t locks mutex m that it owns already.
Reacquires(t, m) == held[m].owner = t /\ held'[m].count > held[m].count

\* C24: when the transform of a cloud into the map frame is unavailable the
\* cloud is dropped: the lookup's failure leads to the catch block with the
\* map (point store, index, dirty flags) and every mutex as they were and no
\* mutex owned by the handler, and the catch block leads only to the
\* handler's return, again with the map and the mutexes as they were: no
\* statement that locks the map, merges or publishes is passed.
C24_NoTransformDropsCloud ==
    /\ [][\A n \in ThreadCloudSizes :
             IngestLookup(TfFail, n) =>
                 /\ at'["ingest"] = "catch"
                 /\ cloud' = cloud
                 /\ held' = held
                 /\ \A m \in Mutexes : ~Holds("ingest", m)]_vars
    /\ [][at["ingest"] = "catch" /\ at'["ingest"] # "catch" =>
             /\ at'["ingest"] = "idle"
             /\ cloud' = cloud
             /\ held' = held]_vars
    /\ [](at["ingest"] = "catch" => \A m \in Mutexes : ~Holds("ingest", m))

\* C24 happens: the lookup for a cloud has failed while the map holds
\* points and a plan is running under the map's mutexes.
C24_Witness ==
    /\ at["ingest"] = "catch"
    /\ cloud # <<>>
    /\ \E t \in PlanThreads : Holds(t, "cloud") /\ Holds(t, "index")

\* Thread t is in plan between the map size check, just after its two map
\* Locks, and its return.
InPlan(t) == at[t] \in {"size_check", "lock_cloud_start", "nearby_indices", "dijkstra"}
\* The statements of input_cloud_received and gather_viewpoints past their
\* two map Locks, where the points and the index are read and written.
InMap(t) ==
    \/ t = "ingest" /\ at[t] \in {"lock_dirty", "merge", "lock_cloud_dirty", "publish_dirty"}
    \/ t = "sampler" /\ at[t] = "nearby_indices"

\* C27: a plan run sees one snapshot of the map: while a thread is in plan,
\* from its map size check to its return, the only step that changes any
\* point is that thread's own last one (the planning results, written as
\* it returns); the ingestion callback and the viewpoint sampler are at no
\* statement that reads or writes the points or the index, so a cloud or a
\* tick that arrives waits at its first map Lock; the start hits the plan
\* searches from are those of the map as it is; and the timer's plan and
\* the service's plan are never both in plan.
C27_PlanSeesOneSnapshot ==
    /\ [][\A t \in PlanThreads :
             InPlan(t) /\ cloud' # cloud => at[t] = "dijkstra" /\ at'[t] = "idle"]_vars
    /\ [](\A t \in PlanThreads :
             InPlan(t) => ~InMap("ingest") /\ ~InMap("sampler"))
    /\ [](\A t \in PlanThreads :
             at[t] = "dijkstra" =>
                 locals[t].points =
                     SortedSeq(StartHits(cloud, locals[t].req, locals[t].start)))
    /\ [](~(InPlan("timer") /\ InPlan("rpc")))

\* C27 happens: one plan is searching while a cloud to merge, a viewpoint
\* tick and the other plan wait at their first map Lock.
C27_Witness ==
    /\ \E t \in PlanThreads :
          /\ at[t] = "dijkstra"
          /\ \A u \in PlanThreads \ {t} : at[u] = "lock_cloud"
    /\ at["ingest"] = "lock_cloud"
    /\ locals["ingest"].points # <<>>
    /\ at["sampler"] = "lock_cloud"

\* C28: the point-store mutex is locked before the index mutex: a thread
\* that locks the index mutex owns the point-store mutex, and a thread that
\* locks the point-store mutex it does not own does not own the index
\* mutex.
C28_CloudBeforeIndex ==
    /\ [][\A t \in Threads : FirstAcquires(t, "index") => Holds(t, "cloud")]_vars
    /\ [][\A t \in Threads : FirstAcquires(t, "cloud") => ~Holds(t, "index")]_vars
    /\ [](\A t \in Threads : Holds(t, "index") => Holds(t, "cloud"))

\* C28 happens: each handler that needs both has locked the index mutex
\* with the point-store mutex held; here the sampler, with the ingestion
\* callback and a plan waiting for the point-store mutex.
C28_Witness ==
    /\ Holds("sampler", "cloud")
    /\ Holds("sampler", "index")
    /\ at["ingest"] = "lock_cloud"
    /\ \E t \in PlanThreads : at[t] = "lock_cloud"

\* C29 as stated: no thread holds the viewpoint-ledger mutex in a step in
\* which it locks the index mutex.  gather_viewpoints holds its Lock on
\* viewpoints_mutex_ from before its loop until it returns, and locks the
\* index mutex inside the loop.
C29_Original_LedgerNotHeldAtIndex ==
    [][\A t \in Threads : FirstAcquires(t, "index") => ~Holds(t, "viewpoints")]_vars

\* The global order of the map's and the ledger's mutexes, and a mutex's
\* place in it.
LockOrder == <<"viewpoints", "cloud", "index", "dirty">>
Ranked == {LockOrder[i] : i \in DOMAIN LockOrder}
Rank(m) == CHOOSE i \in DOMAIN LockOrder : LockOrder[i] = m

\* The mutex the Lock at thread t's statement is constructed on.
WaitsFor(t) ==
    CASE t = "ingest" /\ at[t] = "lock_cloud" -> IngestOrder[1]
      [] t = "ingest" /\ at[t] = "lock_index" -> IngestOrder[2]
      [] t = "ingest" /\ at[t] = "lock_dirty" -> IngestOrder[3]
      [] t = "ingest" /\ at[t] = "lock_cloud_dirty" -> "cloud"
      [] t = "sampler" /\ at[t] = "lock_cloud" -> SamplerOrder[1]
      [] t = "sampler" /\ at[t] = "lock_index" -> SamplerOrder[2]
      [] t \in PlanThreads /\ at[t] = "lock_cloud" -> PlanOrder[1]
      [] t \in PlanThreads /\ at[t] = "lock_index" -> PlanOrder[2]
      [] t \in PlanThreads /\ at[t] = "lock_cloud_start" -> "cloud"
      [] OTHER -> "none"
\* Thread t is at a Lock on a mutex another thread owns.
Blocked(t) == WaitsFor(t) # "none" /\ ~Free(WaitsFor(t), t)
\* Every thread of S is blocked by a thread of S.
Deadlocked(S) == \A t \in S : Blocked(t) /\ held[WaitsFor(t)].owner \in S

\* C30: no deadlock under any interleaving of the ingestion callback, the
\* viewpoint sampler, the timer's plan, the service's plan and the parameter
\* reload: no set of threads is blocked by its own members, and a thread
\* that owns a mutex is never blocked for good, as some thread that is not
\* blocked owns the mutex it waits for; a thread that locks one of the
\* ledger, point-store, index and dirty-set mutexes owns only mutexes
\* earlier in that order; the mutexes of the initialized flag and of the
\* stored request are owned across no step; and the only mutex a thread
\* locks while owning it is the point-store mutex, which is recursive, so
\* that Lock never blocks.
C30_NoDeadlock ==
    /\ [](\A S \in (SUBSET Threads) \ {{}} : ~Deadlocked(S))
    /\ [](\A t \in Threads :
             Blocked(t) => \E u \in Threads \ {t} :
                              Holds(u, WaitsFor(t)) /\ ~Blocked(u))
    /\ [][\A t \in Threads : \A m \in Ranked :
             FirstAcquires(t, m) =>
                 \A h \in Ranked : Holds(t, h) => Rank(h) < Rank(m)]_vars
    /\ [](held["initialized"] = Unowned /\ held["last_request"] = Unowned)
    /\ [][\A t \in Threads : \A m \in Mutexes : Reacquires(t, m) => m = "cloud"]_vars
    /\ [](\A t \in Threads :
             at[t] \in {"lock_cloud_dirty", "lock_cloud_start"} => ~Blocked(t))

\* C30 happens: the ingestion callback owns the point-store mutex twice
\* over, the index and the dirty-set mutex, while the sampler, owning the
\* ledger, and both plans are blocked at the point-store mutex and the
\* parameters are being reloaded.
C30_Witness ==
    /\ held["cloud"] = [owner |-> "ingest", count |-> 2]
    /\ Holds("ingest", "index")
    /\ Holds("ingest", "dirty")
    /\ Holds("sampler", "viewpoints")
    /\ Blocked("sampler")
    /\ \A t \in PlanThreads : Blocked(t)
    /\ at["params"] = "update_params"

\* ---- the stored request, with the service called for a path to a goal
\* The request the plan service is called with while the stored request is
\* followed: a directed one, unlike the stored request of the constructor.
DirectedRequests == {Request(GivenStart, GivenGoal, 0)}

\* The constructor, the ingestion callback, the planning timer and the plan
\* service, one Lock a step.
RequestNext ==
    \/ MainFinish
    \/ \E tf \in CloudTfs, n \in ThreadCloudSizes : IngestLookup(tf, n)
    \/ IngestCatch
    \/ IngestLock
    \/ IngestMerge
    \/ IngestRelock
    \/ IngestPublish
    \/ TimerCopyRequest
    \/ \E tf \in PlanTfs(locals["timer"].req) : TimerPlan(tf)
    \/ \E req \in DirectedRequests : \E tf \in PlanTfs(req) : RpcCall(req, tf)
    \/ \E t \in PlanThreads :
          \/ PlanLock(t)
          \/ PlanSizeCheck(t)
          \/ PlanRelock(t)
          \/ \E hits \in StartSearchResults(t) : PlanStartSearch(t, hits)
          \/ \E rnd \in RandValues : PlanSearch(t, rnd)

RequestSpec == Init /\ [][RequestNext]_vars

\* C31 as stated: the stored request is replaced only by a request of the
\* plan service, so that once a service request is stored it stays until
\* the next service request: no step of the planning timer changes it.
\* planning_timer_cb copies the stored request and its plan call stores the
\* copy back, after a service request may have been stored in between.
C31_Original_OnlyNewerRequestStored ==
    [][last_request' # last_request => at'["timer"] = at["timer"]]_vars

\* Thread t owns one of the two map mutexes.
HoldsMap(t) == Holds(t, "cloud") \/ Holds(t, "index")
\* Thread t takes a step that looks a transform up.
LooksUp(t) ==
    CASE t = "ingest" -> \E tf \in CloudTfs, n \in ThreadCloudSizes : IngestLookup(tf, n)
      [] t = "sampler" -> \E tf \in OtherTfs \cup SelfTfs : SamplerLookup(tf)
      [] t = "rpc" -> \E req \in ThreadRequests : \E tf \in PlanTfs(req) : RpcCall(req, tf)
      [] t = "timer" -> \E tf \in PlanTfs(locals["timer"].req) : TimerPlan(tf)
      [] OTHER -> FALSE

\* C33: no handler looks a transform up while it owns the point-store or
\* the index mutex: every step of the ingestion callback, the sampler and
\* the two plans that looks a transform up, whether the lookup succeeds or
\* fails, is taken by a thread that owns neither mutex and leaves it owning
\* neither; and the sampler, whose lookups are in a loop, owns neither at
\* its lookup statement, for the second actor as for the first.
C33_NoLookupUnderMapLock ==
    /\ [][\A t \in Threads : LooksUp(t) => ~HoldsMap(t) /\ ~HoldsMap(t)']_vars
    /\ [](at["sampler"] = "lookupTransform" => ~HoldsMap("sampler"))
    /\ [](\A t \in PlanThreads \cup {"ingest"} :
             at[t] \in {"idle", "plan", "catch"} => ~HoldsMap(t))

\* C33 happens: the sampler, having updated the visits of the teammate
\* under the map mutexes, is at the lookup for the robot while the ingestion
\* callback owns the map.
C33_Witness ==
    /\ at["sampler"] = "lookupTransform"
    /\ locals["sampler"].actor = "self"
    /\ other_viewpoints # <<>>
    /\ Holds("ingest", "cloud")
    /\ Holds("ingest", "index")

\* The visit times stored at the points.
VisitTimes ==
    {cloud[v].actor_last_visit : v \in DOMAIN cloud}
        \cup {cloud[v].other_actors_last_visit : v \in DOMAIN cloud}

\* C34: while the planner is not initialized the point store is empty: no
\* step before the flag is set adds a point, so a viewpoint tick that runs
\* before it finds no point to write a visit to; and every visit time
\* stored at a point was stored with the flag set, measured from the
\* initialization time the constructor set and not changed since.
C34_EmptyUntilInitialized ==
    /\ [](~initialized => cloud = <<>>)
    /\ [][~initialized /\ at'["sampler"] # at["sampler"] =>
             cloud = <<>> /\ cloud' = <<>>]_vars
    /\ [](\A t \in VisitTimes :
             IsFinite(t) =>
                 /\ initialized
                 /\ time_initialized \in 0..now
                 /\ \E time \in (-1)..now : t = time_from_init(time))
    /\ [][initialized => time_initialized' = time_initialized]_vars

\* C34 happens: a whole viewpoint tick has run before the constructor
\* finished, logging the poses of both actors, with no point to write to.
C34_Witness ==
    /\ ~initialized
    /\ viewpoints # <<>>
    /\ other_viewpoints # <<>>
    /\ at["sampler"] = "idle"
    /\ cloud = <<>>

\* The number of points of a cloud that pass the range gate and the robot
\* filter.
Survivors(pts, robots) ==
    Len(SelectSeq(pts, LAMBDA p : InRange(p) /\ ~NearRobot(p, robots)))
\* The clouds that get as far as the filters: the defects other than a
\* missing position field are not looked at by input_cloud_received.
FilteredMsgs == {ValidCloud, OldCloud, NoNormalCloud}

\* C36: a cloud of which fewer than min_pts points pass the range gate and
\* the robot filter is discarded whole: the handler ends with the map as it
\* was, nothing published and no mutex taken; a cloud of which min_pts or
\* more pass is merged: all of its surviving points are handed to merge,
\* each of them is afterwards in the map or within points_min_dist of a
\* point of it, no point of the map is lost and the dirty cloud is
\* published.
C36_FewSurvivorsDiscarded ==
    [][\A msg \in FilteredMsgs, shape \in IngestShapes, n \in IngestSizes,
          tf_robot \in TeammateTfs, subs \in SubscribedSets :
          InputCloudReceived(msg, shape, n, TfOk(SensorOffset), tf_robot, subs)
              /\ initialized
          => LET robots == IF filter_robots THEN find_robots(tf_robot) ELSE <<>>
                 k == Survivors(MakeCloud(shape, n), robots)
             IN IF k < min_pts
                THEN /\ ingest'.outcome = "discarded"
                     /\ cloud' = cloud
                     /\ ingest'.published = {}
                     /\ held' = held
                ELSE /\ ingest'.outcome = "merged"
                     /\ Len(ingest'.kept) = k
                     /\ "map_dirty" \in ingest'.published
                     /\ Len(cloud') >= Len(cloud)
                     /\ \A i \in DOMAIN ingest'.kept :
                           \E v \in DOMAIN cloud' :
                              \/ cloud'[v].position = ingest'.kept[i]
                              \/ FWithinRadius(cloud'[v].position, ingest'.kept[i],
                                               points_min_dist_)]_vars

\* C36 happens: with the teammate filter on and a teammate found, a cloud
\* was discarded for too few surviving points, the map holding points of
\* an earlier cloud.
C36_Witness ==
    /\ call = "cloud"
    /\ ingest.outcome = "discarded"
    /\ ingest.robots # <<>>
    /\ cloud # <<>>

\* C37: a plan call that fails leaves the response without poses; the
\* planning timer publishes on path_pub_ if and only if its plan call
\* succeeded, and then what it publishes is the response's plan; no other
\* handler publishes a path; and every published path has two poses or
\* more, the resolved start pose first, the start vertex second and a point
\* of the map at every pose after the first.
C37_PublishedPathFromSuccess ==
    /\ call \in {"service", "timer"} /\ ~res.ret => res.poses = <<>>
    /\ call = "timer" => (path_pub # <<>> <=> res.ret)
    /\ call = "timer" /\ res.ret => path_pub = <<res.poses>>
    /\ call # "timer" => path_pub = <<>>
    /\ \A i \in DOMAIN path_pub :
          LET poses == path_pub[i]
          IN /\ Len(poses) >= 2
             /\ poses[1] = last_plan.start
             /\ poses[2].position = cloud[last_plan.v_start].position
             /\ \A k \in 2..Len(poses) :
                   \E v \in DOMAIN cloud : cloud[v].position = poses[k].position

\* C37 happens: the timer has published a path of three poses or more for
\* the stored exploration request, from the robot's own pose.
C37_Witness ==
    /\ call = "timer"
    /\ path_pub # <<>>
    /\ Len(path_pub[1]) >= 3
    /\ ~valid_point(last_plan.req.start.position)
    /\ path_pub[1][1].position # cloud[last_plan.v_start].position

\* ------------------------------------------------- the staging-area penalty
\* Positions around the faces of the staging box, in decimetres.
StagingPositions ==
    {<<x, y, z>> : x \in {-20, 0, 10}, y \in {-310, -300, 0, 300, 310},
                   z \in {-310, -300, 0, 300, 310}}
        \cup {<<-600, 0, 0>>, <<-610, 0, 0>>}

\* A map of one labelled point at pos, as a merge of a cloud of candidates
\* closer than points_min_dist_ to each other leaves it.
OnePointMap(pos) == update_dirty(<<NewPoint(pos)>>, {1})

\* The planner with a one-point map, the point at any of the positions.
StagingInit ==
    /\ initialized = TRUE
    /\ time_initialized \in UninitTimes
    /\ last_request = Request(NaNVec, NaNVec, default_tolerance)
    /\ cloud \in {OnePointMap(pos) : pos \in StagingPositions}
    /\ viewpoints = <<>>
    /\ other_viewpoints = <<>>
    /\ now = 0
    /\ call = "none"
    /\ res = NoResponse
    /\ last_plan = NoPlan
    /\ path_pub = <<>>
    /\ ingest = NoIngest
    /\ at = [t \in Threads |-> IF t = "main" THEN "done" ELSE "idle"]
    /\ held = [m \in Mutexes |-> Unowned]
    /\ locals = [t \in Threads |-> NoLocals]
    /\ filter_robots = FALSE
    /\ dirty = {}
    /\ map_dirty = <<>>
    /\ params = "configured"
    /\ pass = {}

\* The reward loop of plan's exploration branch over the map, the only
\* point being the start vertex, at path cost 0.
ScoreMap ==
    /\ \E v \in DOMAIN cloud : cloud[v].reward = NaN
    /\ cloud' = ScorePoints(cloud, [v \in DOMAIN cloud |-> 0])
    /\ UNCHANGED <<filter_robots, engine, threads, initialized, time_initialized, last_request,
                   viewpoints, other_viewpoints, now, call, res, last_plan, path_pub,
                   ingest>>

StagingNext == ScoreMap

StagingSpec == StagingInit /\ [][StagingNext]_vars

\* The staging box as the specification states it, in decimetres.
StagingBox(pos) ==
    /\ pos[1] >= -600 /\ pos[1] <= 0
    /\ pos[2] >= -300 /\ pos[2] <= 300
    /\ pos[3] >= -300 /\ pos[3] <= 300
\* The reward of point pt before the staging penalty: that of the same
\* point far from the box.
Unpenalised(pt) == PointReward([pt EXCEPT !.position = <<1000, 0, 0>>])

\* C38 as stated: the reward of a point is divided by 1 + |pos|^4 exactly
\* if the point lies in the box x in [-60, 0], y in [-30, 30],
\* z in [-30, 30]; outside it, in particular at z > 30, the reward is not
\* reduced.  The loop's last comparison reads position_[0] in place of
\* position_[2], so the box has no upper face.
C38_Original_PenaltyOnlyInBox ==
    \A v \in DOMAIN cloud :
        cloud[v].reward # NaN =>
            cloud[v].reward =
                IF StagingBox(cloud[v].position)
                THEN (Unpenalised(cloud[v]) * 100) \div StagingDivisor(cloud[v].position)
                ELSE Unpenalised(cloud[v])

\* --------------------------- the feature engine inside input_cloud_received
\* The labelling parameters update_params can store: those the node was
\* configured with and those the parameter server holds after a change.
ParamSets == {"configured", "reloaded"}

\* update_params with the parameter server holding p: the map's labelling
\* parameters are overwritten, under no mutex.
UpdateParams(p) ==
    /\ \/ Goto("params", "idle", "update_params") /\ params' = params
       \/ Goto("params", "update_params", "idle") /\ params' = p
    /\ UNCHANGED <<filter_robots, dirty, map_dirty, pass, held, locals, initialized,
                   time_initialized, last_request, cloud, viewpoints, other_viewpoints,
                   now, ghost>>

\* The points of cl at the indices D flagged DIRTY.
MarkDirty(cl, D) ==
    Array([v \in DOMAIN cl |->
        IF v \in D THEN [cl[v] EXCEPT !.flags = @ \cup {"DIRTY"}] ELSE cl[v]])
\* The dirty points the recomputation pass has not come to yet.
Todo == {v \in dirty : "DIRTY" \in cloud[v].flags}

\* map_.merge: the kept points are merged; the new points and the points
\* around them are flagged and put in the dirty set.
IngestMergeOnly ==
    /\ Goto("ingest", "merge", "update_dirty")
    /\ LET merged == merge(cloud, locals["ingest"].points, 1)
           D == DirtyAfter(cloud, merged)
       IN /\ cloud' = MarkDirty(merged, D)
          /\ dirty' = dirty \cup D
    /\ pass' = {}
    /\ UNCHANGED <<filter_robots, map_dirty, params, held, locals, initialized,
                   time_initialized, last_request, viewpoints, other_viewpoints, now,
                   ghost>>

\* map_.update_dirty, a point a step: the features and labels of the next
\* dirty point are recomputed with the labelling parameters as they are
\* when the point is come to; after the last point the pass ends.
IngestUpdateDirty ==
    /\ at["ingest"] = "update_dirty"
    /\ IF Todo = {}
       THEN /\ at' = [at EXCEPT !["ingest"] = "lock_cloud_dirty"]
            /\ UNCHANGED <<cloud, pass>>
       ELSE LET v == CHOOSE x \in Todo : \A y \in Todo : x <= y
            IN /\ cloud' = update_dirty(cloud, {v})
               /\ pass' = pass \cup {params}
               /\ at' = at
    /\ UNCHANGED <<filter_robots, dirty, map_dirty, params, held, locals, initialized,
                   time_initialized, last_request, viewpoints, other_viewpoints, now,
                   ghost>>

\* map_.create_dirty_cloud and map_dirty_pub_.publish.
IngestPublishDirty ==
    /\ Goto("ingest", "publish_dirty", "clear_dirty")
    /\ map_dirty' = Append(map_dirty, dirty)
    /\ UNCHANGED <<filter_robots, dirty, params, pass, held, locals, initialized,
                   time_initialized, last_request, cloud, viewpoints, other_viewpoints,
                   now, ghost>>

\* Variant: the handler that does not clear the dirty set.
IngestClearDirty_Skipped ==
    /\ Goto("ingest", "clear_dirty", "return")
    /\ UNCHANGED <<filter_robots, dirty, map_dirty, params, pass, held, locals,
                   initialized, time_initialized, last_request, cloud, viewpoints,
                   other_viewpoints, now, ghost>>

\* map_.clear_dirty.
IngestClearDirty ==
    /\ Goto("ingest", "clear_dirty", "return")
    /\ dirty' = {}
    /\ UNCHANGED <<filter_robots, map_dirty, params, pass, held, locals, initialized,
                   time_initialized, last_request, cloud, viewpoints, other_viewpoints,
                   now, ghost>>

\* The block of the dirty Lock ends and, with no subscriber to local_map
\* and map, the handler returns: every Lock is destroyed.
IngestReturn ==
    /\ Goto("ingest", "return", "idle")
    /\ held' = [m \in Mutexes |-> IF Holds("ingest", m) THEN Unowned ELSE held[m]]
    /\ locals' = [locals EXCEPT !["ingest"] = NoLocals]
    /\ map_dirty' = <<>>
    /\ pass' = {}
    /\ UNCHANGED <<filter_robots, dirty, params, initialized, time_initialized,
                   last_request, cloud, viewpoints, other_viewpoints, now, ghost>>

\* The constructor, the parameter reload, the ingestion callback with its
\* engine followed a statement and a point at a time, and the sampler.
EngineNext ==
    \/ MainFinish
    \/ \E p \in ParamSets : UpdateParams(p)
    \/ \E tf \in CloudTfs, n \in ThreadCloudSizes : IngestLookup(tf, n)
    \/ IngestCatch
    \/ IngestLock
    \/ IngestMergeOnly
    \/ IngestUpdateDirty
    \/ IngestRelock
    \/ IngestPublishDirty
    \/ IngestClearDirty
    \/ IngestReturn
    \/ SamplerTick
    \/ \E tf \in IF locals["sampler"].actor = "other" THEN OtherTfs ELSE SelfTfs :
          SamplerLookup(tf)
    \/ SamplerLock
    \/ SamplerVisit
    \/ SamplerPublish

EngineSpec == Init /\ [][EngineNext]_vars

\* The statements of input_cloud_received from map_.merge to the end of the
\* handler, in program order.
EngineChain == <<"merge", "update_dirty", "lock_cloud_dirty", "publish_dirty",
                 "clear_dirty", "return", "idle">>
EngineSection == {EngineChain[i] : i \in 1..6}
ChainIndex(p) == CHOOSE i \in 1..7 : EngineChain[i] = p

\* What holds in every state of the section, and outside it.
DirtySectionInv ==
    /\ at["ingest"] \in EngineSection =>
           \A m \in {"cloud", "index", "dirty"} : Holds("ingest", m)
    /\ ~Holds("ingest", "cloud") => dirty = {}
    /\ at["ingest"] \in {"lock_cloud_dirty", "publish_dirty", "clear_dirty"} =>
           Todo = {}
    /\ map_dirty # <<>> => at["ingest"] \in {"clear_dirty", "return"}

\* What every step taken while the ingestion is in the section does.
DirtySectionStep ==
    at["ingest"] \in EngineSection =>
        /\ at'["ingest"] = at["ingest"] /\ at["ingest"] # "update_dirty" =>
               cloud' = cloud /\ dirty' = dirty /\ map_dirty' = map_dirty
        /\ at'["ingest"] # at["ingest"] =>
               at'["ingest"] = EngineChain[ChainIndex(at["ingest"]) + 1]
        /\ at["sampler"] # at'["sampler"] \/ at["params"] # at'["params"] =>
               cloud' = cloud /\ dirty' = dirty /\ map_dirty' = map_dirty
        /\ at["ingest"] = "merge" /\ at'["ingest"] = "update_dirty" =>
               dirty = {} /\ dirty' = DirtyAfter(cloud, cloud') /\ map_dirty = <<>>
        /\ at["ingest"] \in {"update_dirty", "lock_cloud_dirty"} =>
               dirty' = dirty /\ map_dirty' = <<>>
        /\ at["ingest"] = "publish_dirty" /\ at'["ingest"] = "clear_dirty" =>
               map_dirty' = <<dirty>> /\ dirty' = dirty /\ cloud' = cloud
        /\ at["ingest"] = "clear_dirty" /\ at'["ingest"] = "return" =>
               dirty' = {} /\ map_dirty' = map_dirty /\ cloud' = cloud

\* C32: an ingestion that reaches merge holds the map's mutexes from the
\* merge to the end of the handler and runs, in this order and with no other
\* handler changing the map in between, the merge, the recomputation of the
\* dirty points, the publication of the dirty cloud and the clearing of the
\* dirty set; the dirty cloud published is the set the merge made dirty,
\* and the dirty set is empty whenever the ingestion does not hold
\* cloud_mutex_.
C32_MergeToClearInOneSection == []DirtySectionInv /\ [][DirtySectionStep]_vars

\* The dirty cloud of a merge is out and the dirty set not yet cleared,
\* while a viewpoint tick waits for cloud_mutex_.
C32_Witness ==
    /\ at["ingest"] = "clear_dirty"
    /\ dirty # {}
    /\ map_dirty = <<dirty>>
    /\ at["sampler"] = "lock_cloud"

\* C35: all the points one ingestion recomputes are labelled with one and
\* the same set of labelling parameters, whatever the reload timer does
\* meanwhile.
C35_Original_OnePassOneParameterSet == Cardinality(pass) <= 1

====
